---- MODULE Spec2Model ----
(***************************************************************************)
(* Model of the ESG KPI extraction pipeline (package esg):                *)
(*   numeric parser, unit resolution, the four deterministic extractors,  *)
(*   their normalizers, score/priority fusion, LLM backfill and the       *)
(*   assembly of the KPIResult list in ESGPipelineV2.run_on_pdf.          *)
(*                                                                         *)
(* Conventions                                                             *)
(*   - a Python str is a sequence of one-character strings (Str("ab"));   *)
(*   - an Optional[x] is <<>> (None) or <<x>>;                            *)
(*   - a Python float is an exact decimal [m |-> mantissa, e |-> exp10],  *)
(*     m * 10^e, normalised so that m has no trailing zero; every         *)
(*     multiplier the code uses is a power of ten, so this is exact;      *)
(*   - a confidence is kept in hundredths (0.85 is 85).                   *)
(***************************************************************************)
EXTENDS Integers, Sequences, FiniteSets, TLC

\* ------------------------------------------------------------------------
\* Strings and options
\* ------------------------------------------------------------------------
\* a sequence built element by element, held as a tuple
List(f) == f \o <<>>

\* a dict built key by key, held by value
Dict(f) == f @@ << >>

Str(s) == List([i \in 1..Len(s) |-> SubSeq(s, i, i)])

None == <<>>
Some(x) == <<x>>
Falsy(o) == o = None \/ o[1] = <<>>

Range(f) == {f[i] : i \in DOMAIN f}

NBSP == "NBSP"          \* U+00A0, U+2007, U+202F: one token for the class
TAB == "\t"
NL == "\n"

\* str.isspace(): what strip(), split() and the regex class \s accept
WhiteSpace == {" ", TAB, NL, NBSP}

\* numeric_parser.SPACE_CHARS: the characters _normalize_spaces folds to " "
SPACE_CHARS == {" ", NBSP}

DigitChars == Str("0123456789")
UpperChars == Str("ABCDEFGHIJKLMNOPQRSTUVWXYZ")
LowerChars == Str("abcdefghijklmnopqrstuvwxyz")

IsDigit(c) == c \in Range(DigitChars)
DigitVal(c) == (CHOOSE i \in 1..10 : DigitChars[i] = c) - 1
IsAlnumLower(c) == c \in Range(DigitChars) \cup Range(LowerChars)

LowerChar(c) ==
    IF c \in Range(UpperChars)
    THEN LowerChars[CHOOSE i \in 1..26 : UpperChars[i] = c]
    ELSE c

Lower(s) == List([i \in 1..Len(s) |-> LowerChar(s[i])])

RemoveChars(s, cs) == SelectSeq(s, LAMBDA c : c \notin cs)

ReplaceChars(s, cs, to) ==
    List([i \in 1..Len(s) |-> IF s[i] \in cs THEN to ELSE s[i]])

\* s.lstrip(cs) / s.rstrip(cs) / s.strip(cs)
LStripSet(s, cs) ==
    IF \A i \in 1..Len(s) : s[i] \in cs THEN <<>>
    ELSE SubSeq(s, CHOOSE i \in 1..Len(s) :
                     s[i] \notin cs /\ \A j \in 1..(i-1) : s[j] \in cs, Len(s))

RStripSet(s, cs) ==
    IF \A i \in 1..Len(s) : s[i] \in cs THEN <<>>
    ELSE SubSeq(s, 1, CHOOSE i \in 1..Len(s) :
                        s[i] \notin cs /\ \A j \in (i+1)..Len(s) : s[j] \in cs)

StripSet(s, cs) == RStripSet(LStripSet(s, cs), cs)

Strip(s) == StripSet(s, WhiteSpace)

\* the literal w occurs in s at position i (exact case)
MatchAt(s, i, w) ==
    /\ i >= 1
    /\ i + Len(w) - 1 <= Len(s)
    /\ \A j \in 1..Len(w) : s[i + j - 1] = w[j]

\* the literal w occurs in s at position i, ignoring case (re.IGNORECASE)
MatchAtI(s, i, w) ==
    /\ i >= 1
    /\ i + Len(w) - 1 <= Len(s)
    /\ \A j \in 1..Len(w) : LowerChar(s[i + j - 1]) = LowerChar(w[j])

\* Python "w in s"
Contains(s, w) == \E i \in 1..(Len(s) + 1) : MatchAt(s, i, w)

EndsWith(s, w) == Len(s) >= Len(w) /\ MatchAt(s, Len(s) - Len(w) + 1, w)

\* regex "$" without re.MULTILINE: at the end, or before one final newline
AtEnd(s, i) == i = Len(s) + 1 \/ (i >= 1 /\ i = Len(s) /\ s[i] = NL)

\* ------------------------------------------------------------------------
\* Floats as exact decimals
\* ------------------------------------------------------------------------
RECURSIVE DecNorm(_, _)
DecNorm(m, e) ==
    IF m = 0 THEN [m |-> 0, e |-> 0]
    ELSE IF m % 10 = 0 THEN DecNorm(m \div 10, e + 1)
    ELSE [m |-> m, e |-> e]

RECURSIVE Pow10(_)
Pow10(k) == IF k <= 0 THEN 1 ELSE 10 * Pow10(k - 1)

DecInt(n) == DecNorm(n, 0)

\* the floats that are no number: nan, inf and -inf
NonFinite(kind) == [m |-> 0, e |-> 0, nonfinite |-> kind]

IsFinite(a) == "nonfinite" \notin DOMAIN a

\* a * b for a positive finite b (a scale or a unit multiplier)
DecMul(a, b) == IF IsFinite(a) THEN DecNorm(a.m * b.m, a.e + b.e) ELSE a

\* a < n and a <= n for an integer n
DecLtInt(a, n) ==
    IF a.e >= 0 THEN a.m * Pow10(a.e) < n ELSE a.m < n * Pow10(-a.e)

DecLeInt(a, n) ==
    IF a.e >= 0 THEN a.m * Pow10(a.e) <= n ELSE a.m <= n * Pow10(-a.e)

DecGeInt(a, n) == ~DecLtInt(a, n)

RECURSIVE DigitsToInt(_)
DigitsToInt(s) ==
    IF s = <<>> THEN 0
    ELSE 10 * DigitsToInt(SubSeq(s, 1, Len(s) - 1)) + DigitVal(s[Len(s)])

AllDigits(s) == Len(s) > 0 /\ \A i \in 1..Len(s) : IsDigit(s[i])

\* Python float(str) on the forms  ws* [+-]? digits [. digits*] ws*  and
\* ws* [+-]? . digits ws*, and on the words nan, inf and infinity in any
\* case; anything else is a ValueError (None here).
\* Exponent and underscore literals are outside the input alphabet.
PyFloatUnsigned(t) ==
    IF AllDigits(t) THEN Some(DecInt(DigitsToInt(t)))
    ELSE IF Lower(t) = Str("nan") THEN Some(NonFinite("nan"))
    ELSE IF Lower(t) \in {Str("inf"), Str("infinity")} THEN Some(NonFinite("inf"))
    ELSE IF \E p \in 1..Len(t) :
                /\ t[p] = "."
                /\ \A i \in 1..Len(t) : i # p => IsDigit(t[i])
                /\ Len(t) > 1
         THEN LET p == CHOOSE q \in 1..Len(t) : t[q] = "."
                  digits == SubSeq(t, 1, p - 1) \o SubSeq(t, p + 1, Len(t))
              IN  Some(DecNorm(DigitsToInt(digits), -(Len(t) - p)))
         ELSE None

PyFloat(s) ==
    LET signed(t, r) ==
          IF t = <<>> \/ r = None THEN None
          ELSE IF ~IsFinite(r[1])
               THEN IF t[1] = "-" /\ r[1].nonfinite = "inf"
                    THEN Some(NonFinite("-inf")) ELSE r
          ELSE IF t[1] = "-" THEN Some(DecNorm(-(r[1].m), r[1].e))
          ELSE r
        unsigned(t) ==
          signed(t, IF t = <<>> THEN None
                    ELSE PyFloatUnsigned(IF t[1] \in {"-", "+"} THEN Tail(t) ELSE t))
    IN  unsigned(Strip(s))

\* ------------------------------------------------------------------------
\* esg/utils/numeric_parser.py
\* ------------------------------------------------------------------------
_normalize_spaces(s) == ReplaceChars(s, SPACE_CHARS, " ")

\* ^\d{1,3}(SEP\d{3})+$ with SEP drawn from seps
GroupedThousands(s, seps) ==
    \E n \in {Len(s), Len(s) - 1} :
        /\ AtEnd(s, n + 1)
        /\ \E k \in 1..3 :
            /\ n >= k + 4
            /\ (n - k) % 4 = 0
            /\ \A i \in 1..k : IsDigit(s[i])
            /\ \A i \in (k + 1)..n :
                  IF (i - k) % 4 = 1 THEN s[i] \in seps ELSE IsDigit(s[i])

\* ^\d+$
IntegerForm(s) ==
    \E n \in {Len(s), Len(s) - 1} :
        /\ n >= 1
        /\ AtEnd(s, n + 1)
        /\ \A i \in 1..n : IsDigit(s[i])

\* ^\d+[.,]\d+$
DecimalForm(s) ==
    \E n \in {Len(s), Len(s) - 1} :
        /\ AtEnd(s, n + 1)
        /\ \E p \in 2..(n - 1) :
            /\ s[p] \in {".", ","}
            /\ \A i \in 1..n : i # p => IsDigit(s[i])

\* slip: a single separator is always read as the decimal point
parse_locale_number_single_decimal(num) ==
    IF Falsy(num) THEN None
    ELSE PyFloat(ReplaceChars(RemoveChars(_normalize_spaces(Strip(num[1])), {" "}),
                              {","}, "."))

parse_locale_number(num) ==
    LET \* the string each of the five branches hands to float()
        cleaned(s, s_no_space) ==
          IF GroupedThousands(s_no_space, {".", ","})
          THEN RemoveChars(s_no_space, {".", ","})
          ELSE IF GroupedThousands(s, {" "})
          THEN RemoveChars(s, {" "})
          ELSE IF IntegerForm(s_no_space)
          THEN s_no_space
          ELSE IF DecimalForm(s_no_space)
          THEN ReplaceChars(s_no_space, {","}, ".")
          ELSE RemoveChars(s, {" ", ",", "."})
        stripped(s) == cleaned(s, RemoveChars(s, {" "}))
        parse(s0) == IF s0 = <<>> THEN None ELSE PyFloat(stripped(RStripSet(s0, {"."})))
    IN  IF Falsy(num) THEN None ELSE parse(_normalize_spaces(Strip(num[1])))

ScaleWords == <<Str("million"), Str("billion"), Str("thousand"), Str("k")>>

\* re.sub(r"(million|billion|thousand|k)", "", s)
RECURSIVE RemoveScaleWords(_)
RemoveScaleWords(s) ==
    IF s = <<>> THEN <<>>
    ELSE IF \E w \in 1..Len(ScaleWords) : MatchAt(s, 1, ScaleWords[w])
         THEN LET w == CHOOSE v \in 1..Len(ScaleWords) :
                          /\ MatchAt(s, 1, ScaleWords[v])
                          /\ \A u \in 1..(v - 1) : ~MatchAt(s, 1, ScaleWords[u])
              IN  RemoveScaleWords(SubSeq(s, Len(ScaleWords[w]) + 1, Len(s)))
         ELSE <<s[1]>> \o RemoveScaleWords(Tail(s))

parse_scaled_number(raw) ==
    LET scale(s) == IF Contains(s, Str("million")) THEN DecInt(1000000)
                    ELSE IF Contains(s, Str("billion")) THEN DecInt(1000000000)
                    ELSE IF Contains(s, Str("thousand")) THEN DecInt(1000)
                    ELSE IF EndsWith(s, Str("k")) THEN DecInt(1000)
                    ELSE DecInt(1)
        scaled(s, num) == IF num = None THEN None ELSE Some(DecMul(num[1], scale(s)))
        parse(s) == IF s = <<>> THEN None
                    ELSE scaled(s, parse_locale_number(Some(RemoveScaleWords(s))))
    IN  IF Falsy(raw) THEN None ELSE parse(_normalize_spaces(Lower(Strip(raw[1]))))

\* ------------------------------------------------------------------------
\* KPI schema (universal_kpis.json): an ordered mapping
\*   code -> {units: [canonical, ...], synonyms: [...]}
\* kept as a sequence of records in the mapping's key order.
\* ------------------------------------------------------------------------
SUP3 == "SUP3"          \* the superscript three of "m<sup>3</sup>"
ACIRC == "ACIRC"        \* U+00C2, first half of the mojibake of U+00B3

KpiCodes(schema) == List([i \in 1..Len(schema) |-> schema[i].code])

HasCode(schema, code) == \E i \in 1..Len(schema) : schema[i].code = code

Meta(schema, code) == schema[CHOOSE i \in 1..Len(schema) : schema[i].code = code]

\* kpi_schema.get(code, {}).get("units", [])
UnitsOf(schema, code) == IF HasCode(schema, code) THEN Meta(schema, code).units ELSE <<>>

\* first of the indices S at which a loop condition holds (Python
\* for ... break, re.search's leftmost match), None when there is none
FirstOf(S) == IF S = {} THEN None ELSE Some(CHOOSE i \in S : \A j \in S : i <= j)

\* the first candidate that is not None, None when every one is
FirstSome(found) ==
    LET hit == FirstOf({n \in 1..Len(found) : found[n] # None})
    IN  IF hit = None THEN None ELSE found[hit[1]]

\* the results dict of an extractor: found[i] is the candidate of the i-th
\* KPI of the schema, None when the KPI got none
ByCode(schema, found) ==
    [code \in {schema[i].code : i \in {j \in 1..Len(schema) : found[j] # None}} |->
        found[CHOOSE i \in 1..Len(schema) : schema[i].code = code][1]]

\* ------------------------------------------------------------------------
\* esg/normalization/regex_normalizer.py
\* ------------------------------------------------------------------------
UNIT_CONVERSIONS == <<
    [key |-> Str("tco2e"),      target |-> Str("tCO2e"), mult |-> [m |-> 1, e |-> 0]],
    [key |-> Str("tco2"),       target |-> Str("tCO2e"), mult |-> [m |-> 1, e |-> 0]],
    [key |-> Str("t_co2e"),     target |-> Str("tCO2e"), mult |-> [m |-> 1, e |-> 0]],
    [key |-> Str("tonsco2e"),   target |-> Str("tCO2e"), mult |-> [m |-> 1, e |-> 0]],
    [key |-> Str("tonnesco2e"), target |-> Str("tCO2e"), mult |-> [m |-> 1, e |-> 0]],
    [key |-> Str("mwh"),        target |-> Str("MWh"),   mult |-> [m |-> 1, e |-> 0]],
    [key |-> Str("kwh"),        target |-> Str("MWh"),   mult |-> [m |-> 1, e |-> -3]],
    [key |-> Str("gwh"),        target |-> Str("MWh"),   mult |-> [m |-> 1, e |-> 3]],
    [key |-> Str("m3"),         target |-> Str("m3"),    mult |-> [m |-> 1, e |-> 0]],
    [key |-> <<"m", SUP3>>,     target |-> Str("m3"),    mult |-> [m |-> 1, e |-> 0]],
    [key |-> Str("cubicmeters"), target |-> Str("m3"),   mult |-> [m |-> 1, e |-> 0]],
    [key |-> Str("thousandm3"), target |-> Str("m3"),    mult |-> [m |-> 1, e |-> 3]],
    [key |-> Str("millionm3"),  target |-> Str("m3"),    mult |-> [m |-> 1, e |-> 6]] >>

\* "".join(u.split()).lower().replace(SUP3, "3")
_norm_unit_token(u) == ReplaceChars(Lower(RemoveChars(u, WhiteSpace)), {SUP3}, "3")

\* u.lower().replace(" ", "").replace(SUP3, "3")
_normalize_unit_token(u) == ReplaceChars(RemoveChars(Lower(u), {" "}), {SUP3}, "3")

\* (raw_unit, canonical_unit) -> [unit, mult]
\* slip: the unit is returned as it was read instead of as the canonical unit
_normalize_unit_keeping_raw(raw_unit, canonical_unit) ==
    IF Falsy(raw_unit) THEN [unit |-> canonical_unit, mult |-> DecInt(1)]
    ELSE [unit |-> raw_unit, mult |-> DecInt(1)]

\* slip: the multiplier of the conversion table is dropped
_normalize_unit_unscaled(raw_unit, canonical_unit) ==
    [unit |-> IF Falsy(canonical_unit) THEN raw_unit ELSE canonical_unit,
     mult |-> DecInt(1)]

_normalize_unit(raw_unit, canonical_unit) ==
    IF Falsy(canonical_unit) THEN [unit |-> raw_unit, mult |-> DecInt(1)]
    ELSE IF Falsy(raw_unit) THEN [unit |-> canonical_unit, mult |-> DecInt(1)]
    ELSE
      LET can_norm == _norm_unit_token(canonical_unit[1])
          u_norm == _norm_unit_token(raw_unit[1])
          hit == FirstOf({i \in 1..Len(UNIT_CONVERSIONS) :
                                       UNIT_CONVERSIONS[i].key = u_norm})
      IN  IF u_norm = can_norm THEN [unit |-> canonical_unit, mult |-> DecInt(1)]
          ELSE IF /\ hit # None
                  /\ _norm_unit_token(UNIT_CONVERSIONS[hit[1]].target) = can_norm
               THEN [unit |-> canonical_unit, mult |-> UNIT_CONVERSIONS[hit[1]].mult]
               ELSE [unit |-> canonical_unit, mult |-> DecInt(1)]

normalize_regex_entry(entry, units) ==
    LET canonical_unit == IF units # <<>> THEN Some(units[1]) ELSE None
        normalized(value, res) ==
          IF value = None
          THEN [raw_value |-> entry.raw_value, raw_unit |-> entry.raw_unit,
                value |-> None, unit |-> canonical_unit,
                confidence |-> entry.confidence]
          ELSE [raw_value |-> entry.raw_value, raw_unit |-> entry.raw_unit,
                value |-> Some(DecMul(value[1], res.mult)), unit |-> res.unit,
                confidence |-> entry.confidence]
    IN  normalized(parse_scaled_number(entry.raw_value),
                   _normalize_unit(entry.raw_unit, canonical_unit))

normalize_regex_result(raw_results, schema) ==
    [code \in DOMAIN raw_results |->
        normalize_regex_entry(raw_results[code], UnitsOf(schema, code))]

\* ------------------------------------------------------------------------
\* Unit resolution shared by the table, nlp and llm normalizers:
\*   for u in allowed_units: if norm(raw_unit) == norm(u): unit = u; break
\* raw_norm is norm(raw_unit), None when raw_unit is falsy and the loop is
\* skipped; allowed_norm[i] is norm(allowed_units[i])
\* ------------------------------------------------------------------------
MatchAllowed(raw_norm, allowed_units, allowed_norm) ==
    IF raw_norm = None THEN None
    ELSE LET hit == FirstOf({i \in 1..Len(allowed_units) :
                                  raw_norm[1] = allowed_norm[i]})
         IN  IF hit = None THEN None ELSE Some(allowed_units[hit[1]])

SingleDefault(unit, allowed_units) ==
    IF unit = None /\ Len(allowed_units) = 1 THEN Some(allowed_units[1]) ELSE unit

\* ------------------------------------------------------------------------
\* esg/normalization/table_grid_normalizer.py
\*   the extractor hands "value" over as the cell string, so the
\*   isinstance(reported_value, (int, float)) branch is never taken
\* ------------------------------------------------------------------------
normalize_table_grid_entry(entry, allowed_units) ==
    LET raw_norm == IF Falsy(entry.raw_unit) THEN None
                    ELSE Some(_normalize_unit_token(entry.raw_unit[1]))
        allowed_norm == [i \in DOMAIN allowed_units |->
                            _normalize_unit_token(allowed_units[i])]
        ua == IF entry.unit # None /\ entry.unit[1] \in Range(allowed_units)
              THEN entry.unit ELSE None
        ub == IF ua = None
              THEN MatchAllowed(raw_norm, allowed_units, allowed_norm)
              ELSE ua
        uc == SingleDefault(ub, allowed_units)
        normalized(value) ==
          [raw_value |-> entry.raw_value, raw_unit |-> entry.raw_unit,
           value |-> value,
           unit |-> IF uc = None /\ value # None /\ allowed_units # <<>>
                    THEN Some(allowed_units[1]) ELSE uc,
           confidence |-> entry.confidence]
    IN  normalized(parse_locale_number(entry.raw_value))

normalize_table_grid_result(raw_results, schema) ==
    [code \in DOMAIN raw_results |->
        normalize_table_grid_entry(raw_results[code], UnitsOf(schema, code))]

\* ------------------------------------------------------------------------
\* esg/normalization/table_plain_normalizer.py
\* ------------------------------------------------------------------------
normalize_table_plain_entry(entry, allowed_units) ==
    LET value == parse_locale_number(entry.raw_value)
        raw_norm == IF Falsy(entry.raw_unit) THEN None
                    ELSE Some(_norm_unit_token(entry.raw_unit[1]))
        allowed_norm == [i \in DOMAIN allowed_units |-> _norm_unit_token(allowed_units[i])]
        unit == SingleDefault(MatchAllowed(raw_norm, allowed_units, allowed_norm),
                              allowed_units)
    IN  [raw_value |-> entry.raw_value, raw_unit |-> entry.raw_unit,
         value |-> value, unit |-> unit, confidence |-> entry.confidence]

normalize_table_plain_result(raw_results, schema) ==
    [code \in DOMAIN raw_results |->
        normalize_table_plain_entry(raw_results[code], UnitsOf(schema, code))]

\* ------------------------------------------------------------------------
\* esg/normalization/nlp_normalizer.py
\* ------------------------------------------------------------------------
normalize_nlp_entry(entry, allowed_units) ==
    LET value == parse_scaled_number(entry.raw_value)
        raw_norm == IF Falsy(entry.raw_unit) THEN None
                    ELSE Some(_normalize_unit_token(entry.raw_unit[1]))
        allowed_norm == [i \in DOMAIN allowed_units |-> _normalize_unit_token(allowed_units[i])]
        unit == SingleDefault(MatchAllowed(raw_norm, allowed_units, allowed_norm),
                              allowed_units)
    IN  [raw_value |-> entry.raw_value, raw_unit |-> entry.raw_unit,
         value |-> value, unit |-> unit, confidence |-> entry.confidence]

normalize_nlp_result(raw_results, schema) ==
    [code \in DOMAIN raw_results |->
        normalize_nlp_entry(raw_results[code], UnitsOf(schema, code))]

\* ------------------------------------------------------------------------
\* Regular-expression building blocks shared by the text extractors
\* ------------------------------------------------------------------------
\* [0-9,\.\s]
NumClass == Range(DigitChars) \cup {",", "."} \cup WhiteSpace

\* end (exclusive) of the longest run of characters of cls starting at i
RunEnd(s, i, cls) ==
    IF \A j \in i..Len(s) : s[j] \in cls THEN Len(s) + 1
    ELSE CHOOSE j \in i..Len(s) : s[j] \notin cls /\ \A k \in i..(j - 1) : s[k] \in cls

\* (?:million|thousand|k)? under re.IGNORECASE: length matched at p (0: none)
ExtractorScaleWords == <<Str("million"), Str("thousand"), Str("k")>>

ScaleLenAt(s, p) ==
    LET hit == FirstOf({w \in 1..Len(ExtractorScaleWords) :
                                     MatchAtI(s, p, ExtractorScaleWords[w])})
    IN  IF hit = None THEN 0 ELSE Len(ExtractorScaleWords[hit[1]])

\* greedy end (exclusive) of [0-9][0-9,\.\s]*(?:million|thousand|k)? at digit i
ValueEnd(s, i) ==
    LET r == RunEnd(s, i + 1, NumClass)
    IN  r + ScaleLenAt(s, r)

\* the subsequence of s at the positions in keep, in order
AtPositions(s, keep) ==
    LET at == SelectSeq(List([i \in 1..Len(s) |-> i]), LAMBDA i : i \in keep)
    IN  List([n \in 1..Len(at) |-> s[at[n]]])

\* re.sub(r"\s+", " ", text): each whitespace run becomes one space
CollapseWs(s) ==
    LET t == ReplaceChars(s, WhiteSpace, " ")
    IN  AtPositions(t, {i \in 1..Len(t) : t[i] # " " \/ i = 1 \/ t[i - 1] # " "})

\* first unit of the alternation (u1|u2|...) that matches at q and lets the
\* rest of the pattern, Rest[q + len], succeed
UnitAt(s, q, units, Rest) ==
    FirstOf({k \in 1..Len(units) :
                 MatchAtI(s, q, units[k]) /\ Rest[q + Len(units[k])]})

\* ------------------------------------------------------------------------
\* esg/extractors/regex_extractor.py
\* A match is [value |-> <<from, to>>, unit |-> <<from, to>>] (to exclusive).
\* ------------------------------------------------------------------------
\* Pattern A at start i:  V \s* (units)   by backtracking priority:
\*   longest digit run (r: its end), scale word before none (sc: its length),
\*   longest \s* (w: its length), first unit of the alternation (k)
PatternA_Tails(s, r, sc, units) ==
    LET p == r + sc
        ws == RunEnd(s, p, WhiteSpace) - p
    IN  {[r |-> r, sc |-> sc, w |-> w, k |-> k] : w \in 0..ws, k \in 1..Len(units)}

PatternA_Feasible(s, i, units) ==
    IF i > Len(s) \/ ~IsDigit(s[i]) THEN {}
    ELSE UNION {UNION {PatternA_Tails(s, r, sc, units) : sc \in {0, ScaleLenAt(s, r)}}
                : r \in (i + 1)..RunEnd(s, i + 1, NumClass)}

PatternA_Matches(s, i, units) ==
    {t \in PatternA_Feasible(s, i, units) : MatchAtI(s, t.r + t.sc + t.w, units[t.k])}

PatternA_Better(a, b) ==
    \/ a.r > b.r
    \/ a.r = b.r /\ a.sc > b.sc
    \/ a.r = b.r /\ a.sc = b.sc /\ a.w > b.w
    \/ a.r = b.r /\ a.sc = b.sc /\ a.w = b.w /\ a.k < b.k

PatternA_At(s, i, units) ==
    LET span(t) == [value |-> <<i, t.r + t.sc>>,
                    unit |-> <<t.r + t.sc + t.w, t.r + t.sc + t.w + Len(units[t.k])>>]
        best(F) == span(CHOOSE a \in F : \A b \in F : a = b \/ PatternA_Better(a, b))
    IN  best(PatternA_Matches(s, i, units))

\* "||".join(units)
RECURSIVE units_key(_)
units_key(units) ==
    IF units = <<>> THEN <<>>
    ELSE IF Len(units) = 1 THEN units[1]
    ELSE units[1] \o <<"|", "|">> \o units_key(Tail(units))

\* units_key.split("||")
RECURSIVE SplitKey(_)
SplitKey(key) ==
    LET cut == FirstOf({p \in 1..(Len(key) - 1) : key[p] = "|" /\ key[p + 1] = "|"})
    IN  IF cut = None THEN <<key>>
        ELSE <<SubSeq(key, 1, cut[1] - 1)>> \o SplitKey(SubSeq(key, cut[1] + 2, Len(key)))

\* slip: a cached pattern is returned whatever key it was built for
lru_cache_any_entry(cache, key) ==
    IF DOMAIN cache # {} THEN cache[CHOOSE k \in DOMAIN cache : TRUE] ELSE SplitKey(key)

\* @lru_cache(maxsize=256) around a pattern builder: the pattern cached for
\* the key, built from the key on a miss (a pattern is kept as the unit
\* alternatives it was compiled from; fewer than 256 keys occur)
lru_cache(cache, key) ==
    IF key \in DOMAIN cache THEN cache[key] ELSE SplitKey(key)

\* the cache after the patterns of these unit lists have been asked for
CacheAfter(cache, unit_lists) ==
    Dict(cache @@ [key \in {units_key(u) : u \in unit_lists} |-> SplitKey(key)])

\* _get_pattern_value_first(units) and _get_pattern_for_units(units)
_get_pattern_value_first(cache, units) == lru_cache(cache, units_key(units))

_get_pattern_for_units(cache, units) == lru_cache(cache, units_key(units))

\* _pattern_value_first: units = [u for u in units_key.split("||") if u];
\* no unit left -> (?!x)x, which never matches
_pattern_value_first(s, units_all) ==
    LET search(units) ==
          IF units = <<>> THEN None
          ELSE FirstSome(List([i \in 1..Len(s) |->
                   IF PatternA_Matches(s, i, units) = {} THEN None
                   ELSE Some(PatternA_At(s, i, units))]))
    IN  search(SelectSeq(units_all, LAMBDA u : u # <<>>))

\* Pattern B:  \( (units) \) \s* (?:of|is|=|:)? \s* V
Connectors == <<Str("of"), Str("is"), Str("="), Str(":")>>

ConnectorLenAt(s, p) ==
    LET hit == FirstOf({w \in 1..Len(Connectors) :    MatchAtI(s, p, Connectors[w])})
    IN  IF hit = None THEN 0 ELSE Len(Connectors[hit[1]])

\* position of the value's first digit after ")" at position c - 1; 0: no match
PatternB_ValueStart(s, c) ==
    LET a == RunEnd(s, c, WhiteSpace)
        b == a + ConnectorLenAt(s, a)
        d == RunEnd(s, b, WhiteSpace)
    IN  IF d <= Len(s) /\ IsDigit(s[d]) THEN d ELSE 0

PatternB_Unit(s, i, units) ==
    IF i > Len(s) \/ s[i] # "(" THEN None
    ELSE UnitAt(s, i + 1, units,
                [e \in Nat |-> MatchAt(s, e, <<")">>) /\ PatternB_ValueStart(s, e + 1) > 0])

_pattern_paren_unit_first(s, units) ==
    LET span(i, u, d) == [value |-> <<d, ValueEnd(s, d)>>,
                          unit |-> <<i + 1, i + 1 + Len(u)>>]
        with_unit(i, u) == span(i, u, PatternB_ValueStart(s, i + 1 + Len(u) + 1))
        at(i, k) == IF k = None THEN None ELSE Some(with_unit(i, units[k[1]]))
    IN  FirstSome(List([i \in 1..Len(s) |-> at(i, PatternB_Unit(s, i, units))]))

\* Pattern C:  (?<!\() (units) \s* V
PatternC_ValueStart(s, e) ==
    LET d == RunEnd(s, e, WhiteSpace)
    IN  IF d <= Len(s) /\ IsDigit(s[d]) THEN d ELSE 0

PatternC_Unit(s, i, units) ==
    IF i > 1 /\ s[i - 1] = "(" THEN None
    ELSE UnitAt(s, i, units, [e \in Nat |-> PatternC_ValueStart(s, e) > 0])

_pattern_unit_first(s, units) ==
    LET span(i, u, d) == [value |-> <<d, ValueEnd(s, d)>>, unit |-> <<i, i + Len(u)>>]
        with_unit(i, u) == span(i, u, PatternC_ValueStart(s, i + Len(u)))
        at(i, k) == IF k = None THEN None ELSE Some(with_unit(i, units[k[1]]))
    IN  FirstSome(List([i \in 1..Len(s) |-> at(i, PatternC_Unit(s, i, units))]))

\* Pattern D:  \( (units) \) .{0,max_window}? V \s*[,;.]?
\* "." does not match a newline
PatternD_ValueStart(s, e, max_window) ==
    LET hit == FirstOf({d \in 1..Len(s) :
                              /\ d >= e
                              /\ d - e <= max_window
                              /\ IsDigit(s[d])
                              /\ \A j \in e..(d - 1) : s[j] # NL})
    IN  IF hit = None THEN 0 ELSE hit[1]

PatternD_Unit(s, i, units, max_window) ==
    IF i > Len(s) \/ s[i] # "(" THEN None
    ELSE UnitAt(s, i + 1, units,
                [e \in Nat |-> /\ MatchAt(s, e, <<")">>)
                               /\ PatternD_ValueStart(s, e + 1, max_window) > 0])

_pattern_paren_unit_near_value(s, units, max_window) ==
    LET span(i, u, d) == [value |-> <<d, ValueEnd(s, d)>>,
                          unit |-> <<i + 1, i + 1 + Len(u)>>]
        with_unit(i, u) ==
          span(i, u, PatternD_ValueStart(s, i + 1 + Len(u) + 1, max_window))
        at(i, k) == IF k = None THEN None ELSE Some(with_unit(i, units[k[1]]))
    IN  FirstSome(List([i \in 1..Len(s) |->
            at(i, PatternD_Unit(s, i, units, max_window))]))

Group(s, span) == SubSeq(s, span[1], span[2] - 1)

REGEX_BASE_CONFIDENCE == 60
MAX_WINDOW == 120

\* one KPI of extract_kpis_regex: first of the variants A, B, C, D that hits
regex_hit(cleaned, units, pA) ==
    LET first_match(mA, mB, mC, mD) ==
          LET m == IF mA # None THEN mA ELSE IF mB # None THEN mB
                   ELSE IF mC # None THEN mC ELSE mD
              v == Strip(Group(cleaned, m[1].value))
          IN  IF units = <<>> \/ m = None THEN None
              ELSE Some([raw_value |-> Some(IF mA = None /\ mB = None /\ mC = None
                                            THEN RStripSet(v, {".", ",", ";"}) ELSE v),
                         raw_unit |-> Some(Strip(Group(cleaned, m[1].unit))),
                         confidence |-> REGEX_BASE_CONFIDENCE])
    IN  first_match(_pattern_value_first(cleaned, pA),
                    _pattern_paren_unit_first(cleaned, units),
                    _pattern_unit_first(cleaned, units),
                    _pattern_paren_unit_near_value(cleaned, units, MAX_WINDOW))

\* the unit lists of the KPIs before KPI i whose pattern was asked for
PatternKeysBefore(schema, i) ==
    {schema[j].units : j \in {h \in 1..(i - 1) : schema[h].units # <<>>}}

extract_kpis_regex(text, schema, cache) ==
    LET per_kpi(cleaned) ==
          ByCode(schema, List([i \in 1..Len(schema) |->
              regex_hit(cleaned, schema[i].units,
                        _get_pattern_value_first(
                            CacheAfter(cache, PatternKeysBefore(schema, i)),
                            schema[i].units))]))
    IN  IF text = <<>> THEN << >> ELSE per_kpi(CollapseWs(text))

\* the cache of _pattern_value_first after extract_kpis_regex
regex_cache_after(text, schema, cache) ==
    IF text = <<>> THEN cache
    ELSE CacheAfter(cache, PatternKeysBefore(schema, Len(schema) + 1))

\* ------------------------------------------------------------------------
\* Splitting
\* ------------------------------------------------------------------------
\* the pieces of s between the positions in cuts (the cut characters dropped)
SplitAt(s, cuts) ==
    LET bounds == {0} \cup cuts \cup {Len(s) + 1}
        at == SelectSeq(List([i \in 1..(Len(s) + 2) |-> i - 1]), LAMBDA i : i \in bounds)
    IN  List([n \in 1..(Len(at) - 1) |-> SubSeq(s, at[n] + 1, at[n + 1] - 1)])

\* [x.strip() for x in pieces if x.strip()]
StripNonEmpty(pieces) ==
    LET stripped == List([n \in 1..Len(pieces) |-> Strip(pieces[n])])
    IN  SelectSeq(stripped, LAMBDA x : x # <<>>)

\* meta.get("synonyms") or [code.replace("_", " ")], lowercased
SynonymsLower(meta) ==
    IF meta.synonyms # <<>>
    THEN List([n \in 1..Len(meta.synonyms) |-> Lower(meta.synonyms[n])])
    ELSE <<Lower(ReplaceChars(Str(meta.code), {"_"}, " "))>>

AnyContained(s, words) == \E n \in 1..Len(words) : Contains(s, words[n])

\* ------------------------------------------------------------------------
\* esg/extractors/table_plain_extractor.py
\* ------------------------------------------------------------------------
IsWordChar(c) == IsAlnumLower(LowerChar(c)) \/ c = "_"

\* \bw\b at position i
WordAt(s, i, w) ==
    /\ MatchAt(s, i, w)
    /\ (i = 1 \/ ~IsWordChar(s[i - 1]))
    /\ (i + Len(w) > Len(s) \/ ~IsWordChar(s[i + Len(w)]))

NarrativeVerbs ==
    <<Str("reported"), Str("announced"), Str("increased"), Str("decreased"), Str("reached")>>

IsNarrative(lowered) ==
    \E n \in 1..Len(NarrativeVerbs) :
        \E i \in 1..Len(lowered) : WordAt(lowered, i, NarrativeVerbs[n])

\* slip: the parenthesis rule is missing
_is_table_plain_like_without_parens(line) ==
    \/ Contains(line, <<"|">>)
    \/ \E i \in 1..(Len(line) - 1) : line[i] \in WhiteSpace /\ line[i + 1] \in WhiteSpace

_is_table_plain_like(line) ==
    \/ Contains(line, <<"|">>)
    \/ \E i \in 1..(Len(line) - 1) : line[i] \in WhiteSpace /\ line[i + 1] \in WhiteSpace
    \/ (Contains(line, <<"(">>) /\ Contains(line, <<")">>))

\* number_pattern = (-?\d[\d,.\s]*)\s*$ : start of the leftmost match, 0 if none
TrailingNumberStart(line) ==
    LET ok(i) ==
          \/ /\ IsDigit(line[i])
             /\ AtEnd(line, RunEnd(line, i + 1, NumClass))
          \/ /\ line[i] = "-"
             /\ i + 1 <= Len(line)
             /\ IsDigit(line[i + 1])
             /\ AtEnd(line, RunEnd(line, i + 2, NumClass))
        hit == FirstOf({i \in 1..Len(line) : ok(i)})
    IN  IF hit = None THEN 0 ELSE hit[1]

TABLE_PLAIN_CONFIDENCE == 85

\* the candidate one line yields for one KPI (None: the line is skipped)
table_plain_line_hit(line, meta) ==
    LET lowered == Lower(line)
        compact == RemoveChars(lowered, {" "})
        uhit == FirstOf({k \in 1..Len(meta.units) :
                               Contains(compact, _normalize_unit_token(meta.units[k]))})
        start == TrailingNumberStart(line)
    IN  IF \/ IsNarrative(lowered)
           \/ ~_is_table_plain_like(line)
           \/ ~AnyContained(lowered, SynonymsLower(meta))
           \/ start = 0
        THEN None
        ELSE Some([raw_value |-> Some(Strip(SubSeq(line, start, Len(line)))),
                   raw_unit |-> IF uhit = None THEN None ELSE Some(meta.units[uhit[1]]),
                   confidence |-> TABLE_PLAIN_CONFIDENCE])

\* first-hit rule: a KPI keeps the candidate of the first line that yields one
table_plain_first(lines, meta) ==
    FirstSome(List([n \in 1..Len(lines) |-> table_plain_line_hit(lines[n], meta)]))

_parse_table_plain_text(text, schema) ==
    LET per_kpi(lines) ==
          ByCode(schema, List([i \in 1..Len(schema) |->
                                  table_plain_first(lines, schema[i])]))
    IN  per_kpi(StripNonEmpty(SplitAt(text, {i \in 1..Len(text) : text[i] = NL})))

\* ------------------------------------------------------------------------
\* esg/extractors/nlp_extractor.py
\* ------------------------------------------------------------------------
\* re.split(r"(?<=[.!?])\s+|\n+", re.sub(r"\s+", " ", text)), stripped, non-empty
_split_into_sentences(text) ==
    LET t == CollapseWs(text)
    IN  StripNonEmpty(SplitAt(t,
            {i \in 2..Len(t) : t[i] = " " /\ t[i - 1] \in {".", "!", "?"}}))

\* _build_pattern_for_units(...).search(window): pattern A without the
\* empty-unit filter
pattern_with_unit(s, units) ==
    FirstSome(List([i \in 1..Len(s) |->
        IF PatternA_Matches(s, i, units) = {} THEN None
        ELSE Some(PatternA_At(s, i, units))]))

NLP_BASE_CONFIDENCE == 40
NLP_STRONG_BOOST == 15

\* the candidate sentence i yields for one KPI (None: continue with the next)
nlp_sentence_hit(sentences, i, meta, pattern) ==
    LET \* fallback: the first number of the window, filtered
        filtered(raw_value, v) ==
          IF EndsWith(raw_value, <<",">>) THEN None
          ELSE IF v # None /\ DecGeInt(v[1], 1000) /\ DecLeInt(v[1], 2100) THEN None
          ELSE IF v # None /\ DecLtInt(v[1], 100) THEN None
          ELSE Some([raw_value |-> Some(raw_value), raw_unit |-> None,
                     confidence |-> NLP_BASE_CONFIDENCE])
        number(raw_value) == filtered(raw_value, PyFloat(RemoveChars(raw_value, {","})))
        fallback(window, d) ==
          IF d = None THEN None
          ELSE number(Strip(SubSeq(window, d[1], ValueEnd(window, d[1]) - 1)))
        candidate(window, m) ==
          IF m # None
          THEN Some([raw_value |-> Some(Strip(Group(window, m[1].value))),
                     raw_unit |-> Some(Strip(Group(window, m[1].unit))),
                     confidence |-> NLP_BASE_CONFIDENCE + NLP_STRONG_BOOST])
          ELSE IF ~(\E k \in 1..Len(meta.units) :
                       Contains(Lower(window), Lower(meta.units[k])))
          THEN None
          ELSE fallback(window, FirstOf({j \in 1..Len(window) : IsDigit(window[j])}))
        in_window(window) == candidate(window, pattern_with_unit(window, pattern))
    IN  IF ~AnyContained(Lower(sentences[i]), SynonymsLower(meta)) THEN None
        ELSE in_window(CollapseWs(IF i + 1 <= Len(sentences)
                                  THEN sentences[i] \o <<" ">> \o sentences[i + 1]
                                  ELSE sentences[i]))

nlp_first(sentences, meta, pattern) ==
    IF meta.units = <<>> THEN None
    ELSE FirstSome(List([i \in 1..Len(sentences) |->
             nlp_sentence_hit(sentences, i, meta, pattern)]))

extract_kpis_nlp(text, schema, cache) ==
    LET per_kpi(sentences) ==
          ByCode(schema, List([i \in 1..Len(schema) |->
              nlp_first(sentences, schema[i],
                        _get_pattern_for_units(
                            CacheAfter(cache, PatternKeysBefore(schema, i)),
                            schema[i].units))]))
    IN  per_kpi(_split_into_sentences(text))

\* the cache of _build_pattern_for_units after extract_kpis_nlp
nlp_cache_after(text, schema, cache) ==
    IF _split_into_sentences(text) = <<>> THEN cache
    ELSE CacheAfter(cache, PatternKeysBefore(schema, Len(schema) + 1))

\* ------------------------------------------------------------------------
\* esg/extractors/table_grid_extractor.py
\* A table is a sequence of rows, a row a sequence of cells, a cell an
\* Optional[str].  Columns are numbered from 1 (Python index + 1).
\* Accent stripping (NFD, category Mn) is the identity on the alphabet used.
\* ------------------------------------------------------------------------
_norm_text(cell) ==
    IF Falsy(cell) THEN <<>>
    ELSE LET t == Lower(Strip(cell[1]))
             u == List([i \in 1..Len(t) |-> IF IsAlnumLower(t[i]) THEN t[i] ELSE " "])
         IN  Strip(CollapseWs(u))

_norm_unit(u) == ReplaceChars(RemoveChars(Lower(u), {" "}), {SUP3}, "3")

HARDCODED(code) ==
    IF code = "total_ghg_emissions"
    THEN <<Str("total ghg emissions"), Str("ghg emissions total"),
           Str("treibhausgasemissionen gesamt"), Str("emissions totales de ges")>>
    ELSE IF code = "energy_consumption"
    THEN <<Str("total energy consumption"), Str("energy consumption total"),
           Str("gesamtenergieverbrauch"), Str("consommation totale d energie")>>
    ELSE IF code = "water_withdrawal"
    THEN <<Str("total water withdrawal"), Str("water withdrawal total"),
           Str("gesamtwasserentnahme"), Str("prelevement total d eau")>>
    ELSE <<>>

\* one KPI of _build_synonyms
GridSynonyms(meta) ==
    LET base == IF meta.synonyms # <<>> THEN meta.synonyms
                ELSE <<ReplaceChars(Str(meta.code), {"_"}, " ")>>
        combined == base \o HARDCODED(meta.code)
        normed == List([n \in 1..Len(combined) |-> _norm_text(Some(combined[n]))])
    IN  SelectSeq(normed, LAMBDA x : x # <<>>)

KpiHeaderWords == <<Str("kpi"), Str("metric"), Str("kennzahl"), Str("indicateur"), Str("indicator")>>
UnitHeaderWords == <<Str("unit"), Str("einheit"), Str("unite")>>
ValueHeaderWords == <<Str("wert"), Str("valeur"), Str("value")>>

\* re.match(r"20\d{2}$", h)
IsYearHeader(h) ==
    \E n \in {Len(h), Len(h) - 1} :
        /\ n = 4
        /\ AtEnd(h, n + 1)
        /\ h[1] = "2" /\ h[2] = "0" /\ IsDigit(h[3]) /\ IsDigit(h[4])

\* last of the indices S at which a loop condition holds, None when absent
LastOf(S) == IF S = {} THEN None ELSE Some(CHOOSE i \in S : \A j \in S : i >= j)

\* the loop assigns on every matching column, so the last match stays; the
\* year fallback only fires while value is still None
_detect_cols(header) ==
    LET n == Len(header)
        cols(kpi, unit, valueKw, year) ==
          [kpi |-> IF kpi = None THEN 1 ELSE kpi[1],
           unit |-> IF unit # None THEN unit[1] ELSE IF n > 1 THEN 2 ELSE 1,
           value |-> IF valueKw # None THEN valueKw[1]
                     ELSE IF year # None THEN year[1]
                     ELSE IF n > 2 THEN 3 ELSE n]
        detect(norm) ==
          cols(LastOf({i \in 1..n : AnyContained(norm[i], KpiHeaderWords)}),
               LastOf({i \in 1..n : AnyContained(norm[i], UnitHeaderWords)}),
               LastOf({i \in 1..n : AnyContained(norm[i], ValueHeaderWords)}),
               FirstOf({i \in 1..n : IsYearHeader(norm[i])}))
    IN  detect(List([i \in 1..n |-> _norm_text(header[i])]))

\* (cell or "").strip()
CellText(cell) == IF cell = None THEN <<>> ELSE Strip(cell[1])

\* re.search(r"\(([^)]+)\)", s): group 1, None when no match
ParenGroup(s) ==
    LET close(i) == RunEnd(s, i + 1, Range(s) \ {")"})
        hit == FirstOf({i \in 1..Len(s) :
                              s[i] = "(" /\ close(i) <= Len(s) /\ close(i) > i + 1})
    IN  IF hit = None THEN None
        ELSE Some(SubSeq(s, hit[1] + 1, close(hit[1]) - 1))

\* _build_synonyms: the normalized synonym list of every KPI, in schema order
_build_synonyms(schema) == List([k \in 1..Len(schema) |-> GridSynonyms(schema[k])])

\* the KPI a data row is matched to: first code whose synonym list hits
RowMatch(row, col, synonyms) ==
    LET kpi_norm == _norm_text(Some(CellText(row[col.kpi])))
    IN  IF \/ row = <<>>
           \/ col.kpi > Len(row) \/ col.unit > Len(row) \/ col.value > Len(row)
           \/ CellText(row[col.kpi]) = <<>>
           \/ CellText(row[col.value]) = <<>>
        THEN None
        ELSE FirstOf({k \in 1..Len(synonyms) :    AnyContained(kpi_norm, synonyms[k])})

TABLE_GRID_CONFIDENCE == 90

GridRowEntry(row, col, allowed_units) ==
    LET \* raw_unit = unit_raw or None
        or_none(unit_raw) == IF unit_raw = <<>> THEN None ELSE Some(unit_raw)
        \* a unit cell holding a digit is a value column read as a unit
        no_digit(ru) == IF ru # None /\ \E i \in 1..Len(ru[1]) : IsDigit(ru[1][i])
                        THEN None ELSE ru
        \* otherwise the unit in parentheses in the KPI cell
        or_paren(ru, paren) ==
          IF ru = None /\ paren # None THEN Some(Strip(paren[1])) ELSE ru
        entry(value_raw, raw_unit, final_unit) ==
          LET single == final_unit = None /\ Len(allowed_units) = 1
          IN  [raw_value |-> Some(value_raw),
               raw_unit |-> IF single THEN Some(allowed_units[1]) ELSE raw_unit,
               value |-> Some(value_raw),
               unit |-> IF single THEN Some(allowed_units[1]) ELSE final_unit,
               confidence |-> TABLE_GRID_CONFIDENCE]
        resolved(value_raw, raw_unit) ==
          entry(value_raw, raw_unit,
                MatchAllowed(IF Falsy(raw_unit) THEN None
                             ELSE Some(_norm_unit(raw_unit[1])),
                             allowed_units,
                             [i \in DOMAIN allowed_units |-> _norm_unit(allowed_units[i])]))
    IN  resolved(CellText(row[col.value]),
                 or_paren(no_digit(or_none(CellText(row[col.unit]))),
                          ParenGroup(CellText(row[col.kpi]))))

\* results[matched] = {...} is assigned for every matching row, so the last
\* row matched to KPI k stays (matched: the KPI of each row, None for the header)
GridRowFor(matched, k) ==
    LastOf({r \in 1..Len(matched) :    matched[r] = Some(k)})

_extract_table_grid(rows, schema, synonyms) ==
    LET results(col, matched) ==
          ByCode(schema, List([k \in 1..Len(schema) |->
              IF GridRowFor(matched, k) = None THEN None
              ELSE Some(GridRowEntry(rows[GridRowFor(matched, k)[1]], col,
                                     schema[k].units))]))
        rows_of(col) ==
          results(col, List([r \in 1..Len(rows) |->
                      IF r = 1 THEN None ELSE RowMatch(rows[r], col, synonyms)]))
    IN  IF Len(rows) < 2 THEN << >> ELSE Dict(rows_of(_detect_cols(rows[1])))

\* tables: the grids of all pages in reading order; a falsy table is skipped;
\* first-hit rule across tables
extract_kpis_tables_grid(tables, schema) ==
    LET first(hitsOf, code) == FirstOf({t \in 1..Len(tables) : code \in DOMAIN hitsOf[t]})
        results(hitsOf) ==
          ByCode(schema, List([k \in 1..Len(schema) |->
              IF first(hitsOf, schema[k].code) = None THEN None
              ELSE Some(hitsOf[first(hitsOf, schema[k].code)[1]][schema[k].code])]))
        per_table(synonyms) ==
          results(List([t \in 1..Len(tables) |->
                      IF tables[t] = <<>> THEN << >>
                      ELSE _extract_table_grid(tables[t], schema, synonyms)]))
    IN  Dict(per_table(_build_synonyms(schema)))

\* ------------------------------------------------------------------------
\* esg/extractors/llm_extractor.py
\* A JSON value read from the oracle's answer is
\*   [t |-> "null"], [t |-> "str", s |-> chars] or [t |-> "other"] (a number,
\*   boolean, list or object; truthy tells Python's truth value of it).
\* ------------------------------------------------------------------------
JNull == [t |-> "null", s |-> <<>>, truthy |-> FALSE]
JStr(s) == [t |-> "str", s |-> s, truthy |-> s # <<>>]
JOther(truthy) == [t |-> "other", s |-> <<>>, truthy |-> truthy]

\* value of data[code]: a JSON object with raw_value / raw_unit (a missing
\* key reads as null through .get), or something that is not an object
JItem(rv, ru) == [dict |-> TRUE, raw_value |-> rv, raw_unit |-> ru]
JNotADict == [dict |-> FALSE, raw_value |-> JNull, raw_unit |-> JNull]

LLM_BASE_CONFIDENCE == 75

\* outcome of extract_kpis_llm: [raised |-> BOOLEAN, out |-> code -> entry]
\*   response.kind: "no_api_key", "api_error", "bad_structure", "empty",
\*                  "not_json", "json_non_object", "json_object"
\*   response.data: the parsed object, code -> item (absent key: {} default)
extract_kpis_llm(response, subset_schema) ==
    IF response.kind \in {"no_api_key", "api_error", "bad_structure", "empty", "not_json"}
    THEN [raised |-> FALSE, out |-> << >>]
    ELSE IF response.kind = "json_non_object"
    THEN [raised |-> subset_schema # <<>>, out |-> << >>]
    ELSE
      LET item(code) == IF code \in DOMAIN response.data THEN response.data[code]
                        ELSE JItem(JNull, JNull)
          codes == Range(KpiCodes(subset_schema))
      IN  IF \E code \in codes : ~item(code).dict
          THEN [raised |-> TRUE, out |-> << >>]
          ELSE [raised |-> FALSE,
                out |-> Dict([code \in {c \in codes : item(c).raw_value.t # "null"} |->
                            [raw_value |-> item(code).raw_value,
                             raw_unit |-> item(code).raw_unit,
                             confidence |-> LLM_BASE_CONFIDENCE]])]

\* ------------------------------------------------------------------------
\* esg/normalization/llm_normalizer.py
\* ------------------------------------------------------------------------
\* s.replace(old, new) for a two-character old
RECURSIVE ReplacePair(_, _, _)
ReplacePair(s, old, new) ==
    IF Len(s) < 2 THEN s
    ELSE IF s[1] = old[1] /\ s[2] = old[2]
         THEN <<new>> \o ReplacePair(SubSeq(s, 3, Len(s)), old, new)
         ELSE <<s[1]>> \o ReplacePair(Tail(s), old, new)

\* u.lower().replace(" ", "").replace(<mojibake of superscript three>, "3")
llm_norm_unit_token(u) == ReplacePair(RemoveChars(Lower(u), {" "}), <<ACIRC, SUP3>>, "3")

\* str methods on a JSON value that is not a str raise AttributeError
LlmEntryRaises(entry) ==
    \/ entry.raw_value.t = "other" /\ entry.raw_value.truthy
    \/ entry.raw_unit.t = "other" /\ entry.raw_unit.truthy

JOpt(j) == IF j.t = "str" THEN Some(j.s) ELSE None

normalize_llm_entry(entry, allowed_units) ==
    LET value == parse_scaled_number(JOpt(entry.raw_value))
        raw_norm == IF Falsy(JOpt(entry.raw_unit)) THEN None
                    ELSE Some(llm_norm_unit_token(JOpt(entry.raw_unit)[1]))
        allowed_norm == [i \in DOMAIN allowed_units |->
                            llm_norm_unit_token(allowed_units[i])]
        unit == SingleDefault(MatchAllowed(raw_norm, allowed_units, allowed_norm),
                              allowed_units)
    IN  [raw_value |-> entry.raw_value, raw_unit |-> entry.raw_unit,
         value |-> value, unit |-> unit, confidence |-> entry.confidence]

\* [raised |-> BOOLEAN, out |-> code -> normalized entry]
normalize_llm_result(raw_results, schema) ==
    IF \E code \in DOMAIN raw_results : LlmEntryRaises(raw_results[code])
    THEN [raised |-> TRUE, out |-> << >>]
    ELSE [raised |-> FALSE,
          out |-> Dict([code \in DOMAIN raw_results |->
                      normalize_llm_entry(raw_results[code], UnitsOf(schema, code))])]

\* ------------------------------------------------------------------------
\* esg/pipeline/pipeline.py: fusion
\* A fused entry keeps the keys run_on_pdf reads later; status is None when
\* the dict has no "status" key.
\* ------------------------------------------------------------------------
\* slip: the priorities are assigned the other way round
PRIORITY_ORDER_reversed(src) ==
    IF src = "table_grid" THEN 1
    ELSE IF src = "table_plain" THEN 2
    ELSE IF src = "regex" THEN 3
    ELSE 4

PRIORITY_ORDER(src) ==
    IF src = "table_grid" THEN 4
    ELSE IF src = "table_plain" THEN 3
    ELSE IF src = "regex" THEN 2
    ELSE 1

SourceOrder == <<"table_grid", "table_plain", "regex", "nlp">>

\* entry.get("_score", {}).get("score", 0.0)
ScoreOf(entry) == IF "_score" \in DOMAIN entry THEN entry._score.score ELSE 0

\* slip: the sort is ascending (reverse=True forgotten)
BestCandidate_ascending(cands) ==
    CHOOSE c \in cands :
        \A d \in cands :
            \/ c.score < d.score
            \/ c.score = d.score /\ c.priority <= d.priority

\* sorted(candidates, key=(score, priority), reverse=True)[0]
BestCandidate(cands) ==
    CHOOSE c \in cands :
        \A d \in cands :
            \/ c.score > d.score
            \/ c.score = d.score /\ c.priority >= d.priority

NOT_REPORTED == "Not Reported"

\* slip: a KPI without candidates is filled with the number 0.0
FuseOne_zero(code, norms) ==
    LET cands == {[source |-> src, entry |-> norms[src][code],
                   score |-> ScoreOf(norms[src][code]),
                   priority |-> PRIORITY_ORDER(src)] :
                     src \in {x \in Range(SourceOrder) : code \in DOMAIN norms[x]}}
        best == BestCandidate(cands)
    IN  IF cands = {}
        THEN [code |-> code, value |-> Some(DecInt(0)), unit |-> None, confidence |-> 0,
              source |-> <<>>, status |-> Some(NOT_REPORTED)]
        ELSE [code |-> code, value |-> best.entry.value, unit |-> best.entry.unit,
              confidence |-> best.entry.confidence, source |-> <<best.source>>,
              status |-> None]

FuseOne(code, norms) ==
    LET cands == {[source |-> src, entry |-> norms[src][code],
                   score |-> ScoreOf(norms[src][code]),
                   priority |-> PRIORITY_ORDER(src)] :
                     src \in {x \in Range(SourceOrder) : code \in DOMAIN norms[x]}}
        best == BestCandidate(cands)
    IN  IF cands = {}
        THEN [code |-> code, value |-> None, unit |-> None, confidence |-> 0,
              source |-> <<>>, status |-> Some(NOT_REPORTED)]
        ELSE [code |-> code, value |-> best.entry.value, unit |-> best.entry.unit,
              confidence |-> best.entry.confidence, source |-> <<best.source>>,
              status |-> None]

\* slip: the sort key is the score alone
sorted_first_by_score(candidates) ==
    candidates[CHOOSE i \in 1..Len(candidates) :
        /\ \A j \in 1..Len(candidates) : candidates[i].score >= candidates[j].score
        /\ \A j \in 1..(i - 1) : candidates[j].score < candidates[i].score]

\* sorted(candidates, key=(score, priority), reverse=True)[0] on the list in
\* collection order: the sort is stable, so of the candidates with the
\* greatest key the one collected first comes first
sorted_first(candidates) ==
    LET ge(c, d) == \/ c.score > d.score
                    \/ c.score = d.score /\ c.priority >= d.priority
    IN  candidates[CHOOSE i \in 1..Len(candidates) :
            /\ \A j \in 1..Len(candidates) : ge(candidates[i], candidates[j])
            /\ \A j \in 1..(i - 1) : ~ge(candidates[j], candidates[i])]

\* one KPI of fuse_all_sources with the sources collected in the given order
FuseOneCollected(code, norms, order) ==
    LET present == SelectSeq(order, LAMBDA src : code \in DOMAIN norms[src])
        picked(best) ==
          [code |-> code, value |-> best.entry.value, unit |-> best.entry.unit,
           confidence |-> best.entry.confidence, source |-> <<best.source>>,
           status |-> None]
    IN  IF present = <<>>
        THEN [code |-> code, value |-> None, unit |-> None, confidence |-> 0,
              source |-> <<>>, status |-> Some(NOT_REPORTED)]
        ELSE picked(sorted_first(List([i \in 1..Len(present) |->
                 [source |-> present[i], entry |-> norms[present[i]][code],
                  score |-> ScoreOf(norms[present[i]][code]),
                  priority |-> PRIORITY_ORDER(present[i])]])))

\* slip: a KPI without candidates is skipped instead of filled as not reported
fuse_all_sources_skipping(regex_n, table_grid_n, table_plain_n, nlp_n, kpi_codes) ==
    LET norms == [table_grid |-> table_grid_n, table_plain |-> table_plain_n,
                  regex |-> regex_n, nlp |-> nlp_n]
        kept == SelectSeq(kpi_codes,
                          LAMBDA code : \E src \in Range(SourceOrder) : code \in DOMAIN norms[src])
    IN  List([i \in 1..Len(kept) |-> FuseOne(kept[i], norms)])

\* the fused dict in insertion order (one key per code of kpi_codes)
fuse_all_sources(regex_n, table_grid_n, table_plain_n, nlp_n, kpi_codes) ==
    LET norms == [table_grid |-> table_grid_n, table_plain |-> table_plain_n,
                  regex |-> regex_n, nlp |-> nlp_n]
    IN  List([i \in 1..Len(kpi_codes) |-> FuseOne(kpi_codes[i], norms)])

\* ------------------------------------------------------------------------
\* Inputs: schemas, documents, oracle answers
\* ------------------------------------------------------------------------
MaxLines == 1           \* text lines of a document
MaxTables == 1          \* table grids of a document

SchemaA == <<
    [code |-> "total_ghg_emissions", units |-> <<Str("tCO2e")>>,
     synonyms |-> <<Str("Total GHG emissions"), Str("GHG emissions")>>],
    [code |-> "energy_consumption", units |-> <<Str("MWh")>>,
     synonyms |-> <<Str("energy consumption")>>],
    [code |-> "water_withdrawal", units |-> <<Str("m3")>>, synonyms |-> <<>>] >>

SchemaB == <<
    [code |-> "energy_consumption", units |-> <<Str("MWh"), Str("kWh"), Str("GWh")>>,
     synonyms |-> <<Str("energy consumption")>>],
    [code |-> "total_ghg_emissions", units |-> <<Str("tCO2e")>>, synonyms |-> <<>>] >>

\* a KPI whose synonyms do not occur in any line of the pool
SchemaC == <<
    [code |-> "scope1_emissions", units |-> <<Str("tCO2e")>>,
     synonyms |-> <<Str("Scope 1")>>] >>

Schemas == {SchemaA, SchemaB, SchemaC}

LinePool == <<
    Str("Total GHG emissions (tCO2e) of 123,400"),
    Str("The company reported total GHG emissions of 2,024 tco2e."),
    Str("Energy consumption was 1.2 million MWh."),
    Str("Water withdrawal | m3 | 12") \o <<TAB>> \o Str("345"),
    Str("Energy consumption fell. Roughly 3,000 were used (MWh)."),
    Str("Energy consumption  GWh  500.000") >>

TablePool == <<
    << <<Some(Str("KPI")), Some(Str("Unit")), Some(Str("2024"))>>,
       <<Some(Str("Total GHG emissions")), Some(Str("tCO2e")), Some(Str("123,400"))>>,
       <<Some(Str("Total energy consumption")), Some(Str("kWh")), Some(Str("500,000"))>> >>,
    << <<Some(Str("KPI")), Some(Str("Value"))>>,
       <<Some(Str("GHG emissions")), Some(Str("99"))>>,
       <<Some(Str("GHG emissions")), Some(Str("n/a"))>>,
       <<Some(Str("Water withdrawal")), Some(Str("1 200"))>> >>,
    << <<Some(Str("Metric")), Some(Str("2023")), Some(Str("2024"))>>,
       <<Some(Str("Energy consumption (GWh)")), Some(Str("3")), None>>,
       <<Some(Str("Energy consumption (GWh)")), Some(Str("4")), Some(Str("5"))>> >> >>

SeqsUpTo(n, max) == UNION {[1..k -> 1..n] : k \in 0..max}

RECURSIVE JoinLines(_)
JoinLines(lines) ==
    IF lines = <<>> THEN <<>>
    ELSE IF Len(lines) = 1 THEN lines[1]
    ELSE lines[1] \o <<NL>> \o JoinLines(Tail(lines))

\* a document: the page text and the table grids the reader yields, and whether
\* the path exists and what the reader can do with it:
\*   "ok"          every read succeeds
\*   "missing"     the path does not exist
\*   "unreadable"  pdfplumber.open raises
\*   "tables_fail" page.extract_tables raises (the text is readable)
\*   "text_fails"  page.extract_text raises (the grids are readable)
Doc(state, ls, ts) ==
    [state |-> state,
     page_text |-> JoinLines(List([i \in 1..Len(ls) |-> LinePool[ls[i]]])),
     tables |-> List([i \in 1..Len(ts) |-> TablePool[ts[i]]])]

Docs ==
    {Doc("ok", ls, ts) : ls \in SeqsUpTo(Len(LinePool), MaxLines),
                         ts \in SeqsUpTo(Len(TablePool), MaxTables)}
    \cup {Doc("missing", <<>>, <<>>), Doc("unreadable", <<1>>, <<1>>),
          Doc("tables_fail", <<1>>, <<1>>), Doc("text_fails", <<1>>, <<1>>)}

TextReadable(d) == d.state \in {"ok", "tables_fail"}
TablesReadable(d) == d.state \in {"ok", "text_fails"}

OracleItems == {
    JItem(JNull, JNull),
    JItem(JStr(Str("123,400")), JStr(Str("tCO2e"))),
    JItem(JStr(Str("abc")), JNull),
    JItem(JOther(TRUE), JStr(Str("MWh"))),
    JNotADict }

OracleFailures ==
    {"no_api_key", "api_error", "bad_structure", "empty", "not_json", "json_non_object"}

\* what the oracle may answer for a schema: a failure, or an object with an
\* item for every code of the schema (asked for or not)
OracleResponses(schema) ==
    {[kind |-> k, data |-> << >>] : k \in OracleFailures}
    \cup {[kind |-> "json_object", data |-> d] :
            d \in [Range(KpiCodes(schema)) -> OracleItems]}

\* ------------------------------------------------------------------------
\* ESGPipelineV2.run_on_pdf as a state machine
\* ------------------------------------------------------------------------
VARIABLES
    pc,                 \* position in run_on_pdf
    doc,                \* the PDF behind pdf_path
    kpi_schema,         \* cfg.universal_kpis
    text,               \* extract_text(path)
    table_grid_raw, table_plain_raw, regex_raw, nlp_raw,
    table_grid_norm, table_plain_norm, regex_norm, nlp_norm,
    fused,              \* the fused dict, in insertion order
    missing_codes,
    oracle,             \* the oracle's answer to the backfill call, if any
    llm_calls,          \* subset schemas handed to extract_kpis_llm, in order
    llm_failed,         \* the except branch of the backfill was taken
    llm_norm,
    results,            \* the returned List[KPIResult]
    error,              \* exception leaving run_on_pdf
    pattern_cache       \* the lru_cache of each pattern builder: units_key -> pattern

vars == <<pc, doc, kpi_schema, text,
          table_grid_raw, table_plain_raw, regex_raw, nlp_raw,
          table_grid_norm, table_plain_norm, regex_norm, nlp_norm,
          fused, missing_codes, oracle, llm_calls, llm_failed, llm_norm,
          results, error, pattern_cache>>

NoOracle == [kind |-> "none", data |-> << >>]

\* the caches of a fresh process
NoCache == [regex |-> << >>, nlp |-> << >>]

Init ==
    /\ pc = "start"
    /\ doc \in Docs
    /\ kpi_schema \in Schemas
    /\ text = <<>>
    /\ table_grid_raw = << >> /\ table_plain_raw = << >>
    /\ regex_raw = << >> /\ nlp_raw = << >>
    /\ table_grid_norm = << >> /\ table_plain_norm = << >>
    /\ regex_norm = << >> /\ nlp_norm = << >>
    /\ fused = <<>>
    /\ missing_codes = <<>>
    /\ oracle = NoOracle
    /\ llm_calls = <<>>
    /\ llm_failed = FALSE
    /\ llm_norm = << >>
    /\ results = <<>>
    /\ error = "none"
    /\ pattern_cache = NoCache

\* esg/utils/pdf_reader.py: " ".join(raw.split()); "" when the PDF cannot be
\* opened, and a page whose text cannot be read counts as ""
extract_text(d) ==
    IF ~TextReadable(d) THEN <<>> ELSE Strip(CollapseWs(d.page_text))

\* extract_kpis_tables_plain: {} when pdfplumber fails or the text is empty
extract_kpis_tables_plain(d, schema) ==
    IF ~TextReadable(d) \/ Strip(d.page_text) = <<>> THEN << >>
    ELSE _parse_table_plain_text(Strip(d.page_text), schema)

\* slip: the hits aggregated from the grids are returned although reading failed
extract_kpis_tables_grid_doc_keeping_hits(d, schema) ==
    IF d.state = "missing" THEN << >> ELSE extract_kpis_tables_grid(d.tables, schema)

\* extract_kpis_tables_grid: {} when pdfplumber fails
extract_kpis_tables_grid_doc(d, schema) ==
    IF ~TablesReadable(d) THEN << >> ELSE extract_kpis_tables_grid(d.tables, schema)

\* lines 121-131: path check, schema, text
OpenDocument ==
    /\ pc = "start"
    /\ IF doc.state = "missing"
       THEN /\ pc' = "failed"
            /\ error' = "FileNotFoundError"
            /\ text' = text
       ELSE /\ pc' = "extract_table_grid"
            /\ text' = extract_text(doc)
            /\ error' = error
    /\ UNCHANGED <<doc, kpi_schema, table_grid_raw, table_plain_raw, regex_raw, nlp_raw,
                   table_grid_norm, table_plain_norm, regex_norm, nlp_norm,
                   fused, missing_codes, oracle, llm_calls, llm_failed, llm_norm, results,
                   pattern_cache>>

\* line 136
ExtractTableGrid ==
    /\ pc = "extract_table_grid"
    /\ table_grid_raw' = extract_kpis_tables_grid_doc(doc, kpi_schema)
    /\ pc' = "extract_table_plain"
    /\ UNCHANGED <<doc, kpi_schema, text, table_plain_raw, regex_raw, nlp_raw,
                   table_grid_norm, table_plain_norm, regex_norm, nlp_norm,
                   fused, missing_codes, oracle, llm_calls, llm_failed, llm_norm,
                   results, error, pattern_cache>>

\* line 137
ExtractTablePlain ==
    /\ pc = "extract_table_plain"
    /\ table_plain_raw' = extract_kpis_tables_plain(doc, kpi_schema)
    /\ pc' = "extract_regex"
    /\ UNCHANGED <<doc, kpi_schema, text, table_grid_raw, regex_raw, nlp_raw,
                   table_grid_norm, table_plain_norm, regex_norm, nlp_norm,
                   fused, missing_codes, oracle, llm_calls, llm_failed, llm_norm,
                   results, error, pattern_cache>>

\* line 138
ExtractRegex ==
    /\ pc = "extract_regex"
    /\ regex_raw' = extract_kpis_regex(text, kpi_schema, pattern_cache.regex)
    /\ pattern_cache' = [pattern_cache EXCEPT
                            !.regex = regex_cache_after(text, kpi_schema, @)]
    /\ pc' = "extract_nlp"
    /\ UNCHANGED <<doc, kpi_schema, text, table_grid_raw, table_plain_raw, nlp_raw,
                   table_grid_norm, table_plain_norm, regex_norm, nlp_norm,
                   fused, missing_codes, oracle, llm_calls, llm_failed, llm_norm,
                   results, error>>

\* line 139
ExtractNlp ==
    /\ pc = "extract_nlp"
    /\ nlp_raw' = extract_kpis_nlp(text, kpi_schema, pattern_cache.nlp)
    /\ pattern_cache' = [pattern_cache EXCEPT
                            !.nlp = nlp_cache_after(text, kpi_schema, @)]
    /\ pc' = "normalize"
    /\ UNCHANGED <<doc, kpi_schema, text, table_grid_raw, table_plain_raw, regex_raw,
                   table_grid_norm, table_plain_norm, regex_norm, nlp_norm,
                   fused, missing_codes, oracle, llm_calls, llm_failed, llm_norm,
                   results, error>>

\* lines 142-145
Normalize ==
    /\ pc = "normalize"
    /\ table_grid_norm' = normalize_table_grid_result(table_grid_raw, kpi_schema)
    /\ table_plain_norm' = normalize_table_plain_result(table_plain_raw, kpi_schema)
    /\ regex_norm' = normalize_regex_result(regex_raw, kpi_schema)
    /\ nlp_norm' = normalize_nlp_result(nlp_raw, kpi_schema)
    /\ pc' = "fuse"
    /\ UNCHANGED <<doc, kpi_schema, text, table_grid_raw, table_plain_raw, regex_raw,
                   nlp_raw, fused, missing_codes, oracle, llm_calls, llm_failed,
                   llm_norm, results, error, pattern_cache>>

\* lines 148-155
Fuse ==
    /\ pc = "fuse"
    /\ fused' = fuse_all_sources(regex_norm, table_grid_norm, table_plain_norm,
                                 nlp_norm, KpiCodes(kpi_schema))
    /\ pc' = "select_missing"
    /\ UNCHANGED <<doc, kpi_schema, text, table_grid_raw, table_plain_raw, regex_raw,
                   nlp_raw, table_grid_norm, table_plain_norm, regex_norm, nlp_norm,
                   missing_codes, oracle, llm_calls, llm_failed, llm_norm,
                   results, error, pattern_cache>>

\* slip: the backfill is asked for every KPI, resolved or not
MissingCodes_every(f, kpi_codes) ==
    kpi_codes

\* fused.get(code, {}).get("value") is None, for code in kpi_codes
MissingCodes(f, kpi_codes) ==
    SelectSeq(kpi_codes,
              LAMBDA code : \A i \in 1..Len(f) : f[i].code = code => f[i].value = None)

\* lines 161-166
SelectMissing ==
    /\ pc = "select_missing"
    /\ missing_codes' = MissingCodes(fused, KpiCodes(kpi_schema))
    /\ pc' = IF missing_codes' # <<>> THEN "backfill" ELSE "assemble"
    /\ UNCHANGED <<doc, kpi_schema, text, table_grid_raw, table_plain_raw, regex_raw,
                   nlp_raw, table_grid_norm, table_plain_norm, regex_norm, nlp_norm,
                   fused, oracle, llm_calls, llm_failed, llm_norm, results, error,
                   pattern_cache>>

\* {code: kpi_schema[code] for code in missing_codes if code in kpi_schema}
SubsetSchema(schema, codes) ==
    LET kept == SelectSeq(codes, LAMBDA code : HasCode(schema, code))
    IN  List([i \in 1..Len(kept) |-> Meta(schema, kept[i])])

\* slip: no except clause, the exception leaves run_on_pdf
BackfillTry_uncaught(response, subset_schema) ==
    LET llm_raw == extract_kpis_llm(response, subset_schema)
        normed == normalize_llm_result(llm_raw.out, subset_schema)
    IN  IF llm_raw.raised \/ normed.raised
        THEN [failed |-> TRUE, error |-> "Exception", llm_norm |-> << >>]
        ELSE [failed |-> FALSE, error |-> "none", llm_norm |-> normed.out]

\* the try block of lines 180-185 for one oracle answer:
\*   failed: the except branch ran;  error: exception leaving the block
\*   (except Exception catches all);  llm_norm: code -> entry
BackfillTry(response, subset_schema) ==
    LET llm_raw == extract_kpis_llm(response, subset_schema)
        normed == normalize_llm_result(llm_raw.out, subset_schema)
    IN  IF llm_raw.raised \/ normed.raised
        THEN [failed |-> TRUE, error |-> "none", llm_norm |-> << >>]
        ELSE [failed |-> FALSE, error |-> "none", llm_norm |-> normed.out]

\* lines 174-185
Backfill ==
    /\ pc = "backfill"
    /\ \E response \in OracleResponses(kpi_schema) :
        LET subset_schema == SubsetSchema(kpi_schema, missing_codes)
            outcome == BackfillTry(response, subset_schema)
        IN  /\ oracle' = response
            /\ llm_calls' = Append(llm_calls, KpiCodes(subset_schema))
            /\ llm_failed' = outcome.failed
            /\ llm_norm' = outcome.llm_norm
            /\ error' = outcome.error
            /\ pc' = IF outcome.error = "none" THEN "merge" ELSE "failed"
    /\ UNCHANGED <<doc, kpi_schema, text, table_grid_raw, table_plain_raw, regex_raw,
                   nlp_raw, table_grid_norm, table_plain_norm, regex_norm, nlp_norm,
                   fused, missing_codes, results, pattern_cache>>

\* fused[code] = {value, unit, confidence, source: ["llm"]}
LlmFused(code, entry) ==
    [code |-> code, value |-> entry.value, unit |-> entry.unit,
     confidence |-> entry.confidence, source |-> <<"llm">>, status |-> None]

\* one iteration of the loop of lines 188-200
MergeOne(f, code, llm_n) ==
    IF code \notin DOMAIN llm_n THEN f
    ELSE IF \E i \in 1..Len(f) : f[i].code = code /\ f[i].value # None THEN f
    ELSE IF \E i \in 1..Len(f) : f[i].code = code
    THEN List([i \in 1..Len(f) |->
                 IF f[i].code = code THEN LlmFused(code, llm_n[code]) ELSE f[i]])
    ELSE Append(f, LlmFused(code, llm_n[code]))

\* slip: the fused dict is rebuilt from the backfill answer instead of updated
MergeBackfill_rebuilding(f, codes, llm_n) ==
    LET kept == SelectSeq(codes, LAMBDA code : code \in DOMAIN llm_n)
    IN  IF kept = <<>> THEN f
        ELSE List([i \in 1..Len(kept) |-> LlmFused(kept[i], llm_n[kept[i]])])

RECURSIVE MergeBackfill(_, _, _)
MergeBackfill(f, codes, llm_n) ==
    IF codes = <<>> THEN f
    ELSE MergeBackfill(MergeOne(f, Head(codes), llm_n), Tail(codes), llm_n)

\* lines 188-200
Merge ==
    /\ pc = "merge"
    /\ fused' = MergeBackfill(fused, missing_codes, llm_norm)
    /\ pc' = "assemble"
    /\ UNCHANGED <<doc, kpi_schema, text, table_grid_raw, table_plain_raw, regex_raw,
                   nlp_raw, table_grid_norm, table_plain_norm, regex_norm, nlp_norm,
                   missing_codes, oracle, llm_calls, llm_failed, llm_norm,
                   results, error, pattern_cache>>

\* KPIResult(code, value, unit, float(confidence), source or [], status)
KPIResult(entry) ==
    [code |-> entry.code, value |-> entry.value, unit |-> entry.unit,
     confidence |-> entry.confidence, source |-> entry.source,
     status |-> IF entry.status = None THEN NOT_REPORTED ELSE entry.status[1]]

\* lines 205-218
Assemble ==
    /\ pc = "assemble"
    /\ results' = List([i \in 1..Len(fused) |-> KPIResult(fused[i])])
    /\ pc' = "done"
    /\ UNCHANGED <<doc, kpi_schema, text, table_grid_raw, table_plain_raw, regex_raw,
                   nlp_raw, table_grid_norm, table_plain_norm, regex_norm, nlp_norm,
                   fused, missing_codes, oracle, llm_calls, llm_failed, llm_norm, error,
                   pattern_cache>>

Next ==
    \/ OpenDocument
    \/ ExtractTableGrid
    \/ ExtractTablePlain
    \/ ExtractRegex
    \/ ExtractNlp
    \/ Normalize
    \/ Fuse
    \/ SelectMissing
    \/ Backfill
    \/ Merge
    \/ Assemble

Spec == Init /\ [][Next]_vars

\* ------------------------------------------------------------------------
\* fuse_all_sources on arbitrary candidates: the run starts at the fusion
\* step with any normalized candidates, of any confidence, per source and KPI
\* ------------------------------------------------------------------------
FuseConfidences == {60, 90}

FuseCandidate(conf) ==
    [raw_value |-> Some(Str("7")), raw_unit |-> None,
     value |-> Some(DecInt(7)), unit |-> None, confidence |-> conf]

FuseNorms(schema) ==
    UNION {[codes -> {FuseCandidate(c) : c \in FuseConfidences}] :
             codes \in SUBSET Range(KpiCodes(schema))}

InitFuse ==
    /\ pc = "fuse"
    /\ doc = Doc("ok", <<>>, <<>>)
    /\ kpi_schema = SchemaB
    /\ text = <<>>
    /\ table_grid_raw = << >> /\ table_plain_raw = << >>
    /\ regex_raw = << >> /\ nlp_raw = << >>
    /\ table_grid_norm \in FuseNorms(kpi_schema)
    /\ table_plain_norm \in FuseNorms(kpi_schema)
    /\ regex_norm \in FuseNorms(kpi_schema)
    /\ nlp_norm \in FuseNorms(kpi_schema)
    /\ fused = <<>>
    /\ missing_codes = <<>>
    /\ oracle = NoOracle
    /\ llm_calls = <<>>
    /\ llm_failed = FALSE
    /\ llm_norm = << >>
    /\ results = <<>>
    /\ error = "none"
    /\ pattern_cache = NoCache

NextFuse == Fuse

SpecFuse == InitFuse /\ [][NextFuse]_vars

\* ------------------------------------------------------------------------
\* the four normalizers on arbitrary raw candidates: the run starts at the
\* normalization step with one raw candidate {raw_value, raw_unit,
\* confidence} of one KPI, the same value and unit tokens for every source;
\* the table-grid candidate is the entry the grid extractor builds from a
\* row with these cells
\* ------------------------------------------------------------------------
NumberTokens == {
    None, Some(<<>>), Some(Str("123,400")), Some(Str("123.400")),
    Some(Str("1 200 000")), Some(Str("1.2 million")), Some(Str("120k")),
    Some(Str("abc")), Some(Str("NaN")), Some(Str("1,5")) }

UnitTokens == {
    None, Some(Str("kWh")), Some(Str("tCO2e")), Some(Str("m3")),
    Some(Str("GWh")), Some(Str("liters")) }

RawCandidate(raw_value, raw_unit, confidence) ==
    [raw_value |-> raw_value, raw_unit |-> raw_unit, confidence |-> confidence]

GridCandidates(code, raw_value, raw_unit, units) ==
    IF CellText(raw_value) = <<>> THEN << >>
    ELSE code :> GridRowEntry(<<Some(Str("KPI")), raw_unit, raw_value>>,
                              [kpi |-> 1, unit |-> 2, value |-> 3], units)

InitNormalize ==
    /\ pc = "normalize"
    /\ doc = Doc("ok", <<>>, <<>>)
    /\ kpi_schema \in {SchemaA, SchemaB}
    /\ text = <<>>
    /\ \E k \in 1..Len(kpi_schema), raw_value \in NumberTokens, raw_unit \in UnitTokens :
          /\ regex_raw = kpi_schema[k].code :>
                            RawCandidate(raw_value, raw_unit, REGEX_BASE_CONFIDENCE)
          /\ nlp_raw = kpi_schema[k].code :>
                            RawCandidate(raw_value, raw_unit, NLP_BASE_CONFIDENCE)
          /\ table_plain_raw = kpi_schema[k].code :>
                            RawCandidate(raw_value, raw_unit, TABLE_PLAIN_CONFIDENCE)
          /\ table_grid_raw = GridCandidates(kpi_schema[k].code, raw_value, raw_unit,
                                             kpi_schema[k].units)
    /\ table_grid_norm = << >> /\ table_plain_norm = << >>
    /\ regex_norm = << >> /\ nlp_norm = << >>
    /\ fused = <<>>
    /\ missing_codes = <<>>
    /\ oracle = NoOracle
    /\ llm_calls = <<>>
    /\ llm_failed = FALSE
    /\ llm_norm = << >>
    /\ results = <<>>
    /\ error = "none"
    /\ pattern_cache = NoCache

NextNormalize == Normalize

SpecNormalize == InitNormalize /\ [][NextNormalize]_vars

\* ------------------------------------------------------------------------
\* the two extractors with cached patterns in a process that has run before:
\* the run starts at the pattern extractor with the text of a document and
\* any cache contents earlier runs on the schemas can have left
\* ------------------------------------------------------------------------
PoolKeys == UNION {{units_key(schema[i].units) : i \in 1..Len(schema)} : schema \in Schemas}

EarlierCaches == {Dict([key \in K |-> SplitKey(key)]) : K \in SUBSET PoolKeys}

InitExtract ==
    /\ pc = "extract_regex"
    /\ doc \in {Doc("ok", ls, <<>>) : ls \in SeqsUpTo(Len(LinePool), MaxLines)}
    /\ kpi_schema \in Schemas
    /\ text = extract_text(doc)
    /\ pattern_cache \in {[regex |-> c, nlp |-> c] : c \in EarlierCaches}
    /\ table_grid_raw = << >> /\ table_plain_raw = << >>
    /\ regex_raw = << >> /\ nlp_raw = << >>
    /\ table_grid_norm = << >> /\ table_plain_norm = << >>
    /\ regex_norm = << >> /\ nlp_norm = << >>
    /\ fused = <<>>
    /\ missing_codes = <<>>
    /\ oracle = NoOracle
    /\ llm_calls = <<>>
    /\ llm_failed = FALSE
    /\ llm_norm = << >>
    /\ results = <<>>
    /\ error = "none"

NextExtract == ExtractRegex \/ ExtractNlp

SpecExtract == InitExtract /\ [][NextExtract]_vars

\* ------------------------------------------------------------------------
\* esg_v2: ESGPipelineV2.run_on_pdf (run_pipeline_v2) as a state machine
\* ------------------------------------------------------------------------
\* esg_system/core/text_cleaner.py: whitespace runs become one space, a
\* hyphen followed by whitespace is dropped with it, the ends are stripped
\* (the NUL character removed first is outside the model's alphabet)
clean_text(raw) ==
    LET dehyphenate(t) ==
          AtPositions(t, {i \in 1..Len(t) :
              /\ ~(t[i] = "-" /\ i < Len(t) /\ t[i + 1] = " ")
              /\ ~(t[i] = " " /\ i > 1 /\ t[i - 1] = "-")})
    IN  Strip(dehyphenate(CollapseWs(raw)))

\* esg_system/core/pdf_reader.py: the cleaned page text; a PDF that cannot be
\* opened has no pages and a page whose text cannot be read counts as ""
pdf_reader_extract_text(d) ==
    IF d.state = "missing" THEN <<>>
    ELSE clean_text(IF TextReadable(d) THEN d.page_text ELSE <<>>)

\* esg_v2/extractors/regex_extractor_v2.py: per KPI with units, the first
\* "<value> <unit>" of the text
extract_kpis_regex_v2(txt, schema) ==
    LET hit(m) ==
          IF m = None THEN None
          ELSE Some([raw_value |-> Some(Strip(Group(txt, m[1].value))),
                     raw_unit |-> Some(Strip(Group(txt, m[1].unit))),
                     confidence |-> REGEX_BASE_CONFIDENCE])
    IN  ByCode(schema, List([i \in 1..Len(schema) |->
            IF schema[i].units = <<>> THEN None
            ELSE hit(pattern_with_unit(txt, schema[i].units))]))

\* number of positional arguments normalize_regex_result_v2 requires
\* (raw_results, kpi_schema) and number run_on_pdf passes (regex_raw)
NormalizeRegexV2Arity == 2
NormalizeRegexV2Passed == 1

InitV2 ==
    /\ pc = "v2_start"
    /\ doc \in Docs
    /\ kpi_schema \in Schemas
    /\ text = <<>>
    /\ table_grid_raw = << >> /\ table_plain_raw = << >>
    /\ regex_raw = << >> /\ nlp_raw = << >>
    /\ table_grid_norm = << >> /\ table_plain_norm = << >>
    /\ regex_norm = << >> /\ nlp_norm = << >>
    /\ fused = <<>>
    /\ missing_codes = <<>>
    /\ oracle = NoOracle
    /\ llm_calls = <<>>
    /\ llm_failed = FALSE
    /\ llm_norm = << >>
    /\ results = <<>>
    /\ error = "none"
    /\ pattern_cache = NoCache

\* lines 51-62: path check, text, schema
V2OpenDocument ==
    /\ pc = "v2_start"
    /\ IF doc.state = "missing"
       THEN /\ pc' = "failed"
            /\ error' = "FileNotFoundError"
            /\ text' = text
       ELSE /\ pc' = "v2_extract_regex"
            /\ text' = pdf_reader_extract_text(doc)
            /\ error' = error
    /\ UNCHANGED <<doc, kpi_schema, table_grid_raw, table_plain_raw, regex_raw, nlp_raw,
                   table_grid_norm, table_plain_norm, regex_norm, nlp_norm,
                   fused, missing_codes, oracle, llm_calls, llm_failed, llm_norm, results,
                   pattern_cache>>

\* line 66
V2ExtractRegex ==
    /\ pc = "v2_extract_regex"
    /\ regex_raw' = extract_kpis_regex_v2(text, kpi_schema)
    /\ pc' = "v2_normalize_regex"
    /\ UNCHANGED <<doc, kpi_schema, text, table_grid_raw, table_plain_raw, nlp_raw,
                   table_grid_norm, table_plain_norm, regex_norm, nlp_norm,
                   fused, missing_codes, oracle, llm_calls, llm_failed, llm_norm, results,
                   error, pattern_cache>>

\* line 67: normalize_regex_result_v2(regex_raw) is called without its
\* kpi_schema argument, so the call raises before the function body runs and
\* nothing after it (the v1 pipeline, the fusion, the conversion) is reached
V2NormalizeRegex ==
    /\ pc = "v2_normalize_regex"
    /\ NormalizeRegexV2Passed < NormalizeRegexV2Arity
    /\ pc' = "failed"
    /\ error' = "TypeError"
    /\ UNCHANGED <<doc, kpi_schema, text, table_grid_raw, table_plain_raw, regex_raw,
                   nlp_raw, table_grid_norm, table_plain_norm, regex_norm, nlp_norm,
                   fused, missing_codes, oracle, llm_calls, llm_failed, llm_norm, results,
                   pattern_cache>>

NextV2 ==
    \/ V2OpenDocument
    \/ V2ExtractRegex
    \/ V2NormalizeRegex

SpecV2 == InitV2 /\ [][NextV2]_vars

\* ------------------------------------------------------------------------
\* esg_user/extractors/llm_extractor.py: the backfill extractor with retries
\* ------------------------------------------------------------------------
MAX_LLM_RETRIES == 2

\* the backquote character
BQ == "BQ"

FENCE == <<BQ, BQ, BQ>>

\* _strip_markdown_fences
_strip_markdown_fences(s0) ==
    LET drop_json(t) == IF MatchAtI(t, 1, Str("json"))
                        THEN LStripSet(SubSeq(t, 5, Len(t)), WhiteSpace) ELSE t
        \* s[:s.rfind(fence)], s when there is no fence
        to_last_fence(t) ==
          LET pos == LastOf({i \in 1..Len(t) : MatchAt(t, i, FENCE)})
          IN  IF pos = None THEN t ELSE SubSeq(t, 1, pos[1] - 1)
        unfenced(s) ==
          IF MatchAt(s, 1, FENCE)
          THEN to_last_fence(drop_json(LStripSet(SubSeq(s, 4, Len(s)), WhiteSpace)))
          ELSE s
    IN  Strip(unfenced(Strip(s0)))

\* a JSON item of the oracle's object: a dict with optional value, unit and
\* confidence (a number, in hundredths), or something that is not a dict
LlmItem(value, unit, confidence) ==
    [dict |-> TRUE, truthy |-> TRUE, value |-> value, unit |-> unit,
     confidence |-> confidence]
LlmNotADict(truthy) ==
    [dict |-> FALSE, truthy |-> truthy, value |-> None, unit |-> None,
     confidence |-> None]

\* json.loads on the texts the oracle of the model can answer with:
\*   [kind |-> "object", data |-> key -> item], [kind |-> "other"] for a
\*   root that is not an object, [kind |-> "error"] when parsing raises
json_loads(s) ==
    LET object(d) == [kind |-> "object", data |-> d]
    IN  IF s = Str("{}") THEN object(<< >>)
        ELSE IF s = Str("{\"total_ghg_emissions\": {\"value\": 5, \"unit\": \"tCO2e\"}}")
        THEN object("total_ghg_emissions" :> LlmItem(Some(DecInt(5)), Some(Str("tCO2e")), None))
        ELSE IF s = Str("{\"energy_consumption\": {\"value\": 7, \"confidence\": 0.95}}")
        THEN object("energy_consumption" :> LlmItem(Some(DecInt(7)), None, Some(95)))
        ELSE IF s = Str("{\"total_ghg_emissions\": 7, \"scope1_emissions\": null}")
        THEN object(("total_ghg_emissions" :> LlmNotADict(TRUE))
                    @@ ("scope1_emissions" :> LlmNotADict(FALSE)))
        ELSE IF s \in {Str("[1, 2]"), Str("5"), Str("null")}
        THEN [kind |-> "other", data |-> << >>]
        ELSE [kind |-> "error", data |-> << >>]

\* _try_parse_json: the parsed object, None for an empty text, a text that
\* does not parse and a root that is not an object
_try_parse_json(s) ==
    LET parsed(obj) == IF obj.kind = "object" THEN Some(obj.data) ELSE None
    IN  IF s = <<>> THEN None ELSE parsed(json_loads(_strip_markdown_fences(s)))

\* call_llm: (content or "").strip() of the oracle's answer
call_llm(content) ==
    IF content = None THEN <<>> ELSE Strip(content[1])

LLM_USER_VALUE_CONFIDENCE == 80

\* _normalize_llm_dict: an entry for every code; raised when an item is
\* truthy and not a dict (raw_entry.get)
_normalize_llm_dict(parsed, kpi_codes) ==
    LET item(code) == IF code \in DOMAIN parsed /\ parsed[code].truthy
                      THEN parsed[code] ELSE LlmItem(None, None, None)
        entry(it) ==
          [value |-> it.value, unit |-> it.unit,
           confidence |-> IF it.confidence # None THEN it.confidence[1]
                          ELSE IF it.value # None THEN LLM_USER_VALUE_CONFIDENCE ELSE 0]
    IN  IF \E i \in 1..Len(kpi_codes) : ~item(kpi_codes[i]).dict
        THEN [raised |-> TRUE, out |-> << >>]
        ELSE [raised |-> FALSE,
              out |-> Dict([code \in Range(kpi_codes) |-> entry(item(code))])]

\* what the oracle can do on one call: raise, or answer with a content
OracleAnswers ==
    {None, Some(<<>>), Some(Str("hello")), Some(Str("[1, 2]")), Some(Str("null")),
     Some(Str(" {} ")),
     Some(FENCE \o Str("json") \o <<NL>> \o Str("{}") \o <<NL>> \o FENCE),
     Some(FENCE \o Str(" JSON [1, 2] ") \o FENCE),
     Some(FENCE \o Str("{\"total_ghg_emissions\": {\"value\": 5, \"unit\": \"tCO2e\"}}")),
     Some(Str("{\"energy_consumption\": {\"value\": 7, \"confidence\": 0.95}}")),
     Some(Str("{\"total_ghg_emissions\": 7, \"scope1_emissions\": null}")),
     Some(Str("{\"total_ghg_emissions\": ")) }

OracleOutcomes ==
    {[raised |-> TRUE, answer |-> None]}
    \cup {[raised |-> FALSE, answer |-> a] : a \in OracleAnswers}

\* the run starts at the call of extract_kpis_llm(text); llm_calls collects
\* the outcome of every call_llm, oracle holds the parsed object
InitRetry ==
    /\ pc = "llm_start"
    /\ doc = Doc("ok", <<>>, <<>>)
    /\ kpi_schema \in Schemas \cup {<<>>}
    /\ text = <<>>
    /\ table_grid_raw = << >> /\ table_plain_raw = << >>
    /\ regex_raw = << >> /\ nlp_raw = << >>
    /\ table_grid_norm = << >> /\ table_plain_norm = << >>
    /\ regex_norm = << >> /\ nlp_norm = << >>
    /\ fused = <<>>
    /\ missing_codes = <<>>
    /\ oracle = None
    /\ llm_calls = <<>>
    /\ llm_failed = FALSE
    /\ llm_norm = << >>
    /\ results = <<>>
    /\ error = "none"
    /\ pattern_cache = NoCache

\* lines 178-198: schema, truncation, prompt
RetryStart ==
    /\ pc = "llm_start"
    /\ pc' = IF kpi_schema = <<>> THEN "done" ELSE "llm_attempt"
    /\ UNCHANGED <<doc, kpi_schema, text, table_grid_raw, table_plain_raw, regex_raw,
                   nlp_raw, table_grid_norm, table_plain_norm, regex_norm, nlp_norm,
                   fused, missing_codes, oracle, llm_calls, llm_failed, llm_norm,
                   results, error, pattern_cache>>

\* slip: a call that raises does not end the loop
RetryLoopNext_past_raise(outcome, parsed, attempts) ==
    IF parsed # None \/ attempts >= MAX_LLM_RETRIES + 1
    THEN "llm_finish" ELSE "llm_attempt"

\* where the loop of lines 200-214 goes after an attempt: it ends on a call
\* that raised, on a parsed object and when range(MAX_LLM_RETRIES + 1) is used up
RetryLoopNext(outcome, parsed, attempts) ==
    IF outcome.raised \/ parsed # None \/ attempts >= MAX_LLM_RETRIES + 1
    THEN "llm_finish" ELSE "llm_attempt"

\* lines 200-214: one iteration of the retry loop
RetryAttempt ==
    /\ pc = "llm_attempt"
    /\ \E outcome \in OracleOutcomes :
        LET parsed == IF outcome.raised THEN None
                      ELSE _try_parse_json(call_llm(outcome.answer))
        IN  /\ llm_calls' = Append(llm_calls, outcome)
            /\ oracle' = parsed
            /\ llm_failed' = outcome.raised
            /\ pc' = RetryLoopNext(outcome, parsed, Len(llm_calls) + 1)
    /\ UNCHANGED <<doc, kpi_schema, text, table_grid_raw, table_plain_raw, regex_raw,
                   nlp_raw, table_grid_norm, table_plain_norm, regex_norm, nlp_norm,
                   fused, missing_codes, llm_norm, results, error, pattern_cache>>

\* lines 216-229: null entries after a total failure, else the normalized dict
RetryFinish ==
    /\ pc = "llm_finish"
    /\ LET null_all == Dict([code \in Range(KpiCodes(kpi_schema)) |->
                              [value |-> None, unit |-> None, confidence |-> 0]])
           final(n) ==
             /\ llm_norm' = n.out
             /\ error' = IF n.raised THEN "AttributeError" ELSE error
             /\ pc' = IF n.raised THEN "failed" ELSE "done"
       IN  IF oracle = None
           THEN llm_norm' = null_all /\ pc' = "done" /\ error' = error
           ELSE final(_normalize_llm_dict(oracle[1], KpiCodes(kpi_schema)))
    /\ UNCHANGED <<doc, kpi_schema, text, table_grid_raw, table_plain_raw, regex_raw,
                   nlp_raw, table_grid_norm, table_plain_norm, regex_norm, nlp_norm,
                   fused, missing_codes, oracle, llm_calls, llm_failed, results,
                   pattern_cache>>

NextRetry ==
    \/ RetryStart
    \/ RetryAttempt
    \/ RetryFinish

\* the loop body and the code after it run without waiting on anything but
\* the oracle's outcome, which every call gets
SpecRetry == InitRetry /\ [][NextRetry]_vars /\ WF_vars(NextRetry)

\* ------------------------------------------------------------------------
\* esg_user/pipeline/fusion.py: the legacy fusion behind extract_all_kpis
\* ------------------------------------------------------------------------
\* ExtractorResultDict(value, unit, confidence): source defaults to []
ExtractorResultDict(value, unit, confidence) ==
    [value |-> value, unit |-> unit, confidence |-> confidence, source |-> <<>>]

LegacySources == <<"regex", "nlp", "table", "llm">>

\* _pick_best up to the sort: the (name, res) pairs with confidence > 0 in
\* the order they are added, sorted by confidence descending; the sort is
\* stable, so among equal confidences the one added first stays first
legacy_candidates(byName) ==
    LET added == SelectSeq(LegacySources, LAMBDA n : byName[n].confidence > 0)
        before(a, b) ==
          \/ byName[added[a]].confidence > byName[added[b]].confidence
          \/ byName[added[a]].confidence = byName[added[b]].confidence /\ a < b
    IN  List([r \in 1..Len(added) |->
            added[CHOOSE a \in 1..Len(added) :
                    Cardinality({b \in 1..Len(added) : before(b, a)}) = r - 1]])

\* _pick_best: candidates[0] of the sorted list; name is the first element
\* of the tuple, which the function drops
_pick_best(byName) ==
    LET first(sorted) ==
          IF sorted = <<>>
          THEN [name |-> "none", res |-> ExtractorResultDict(None, None, 0)]
          ELSE [name |-> sorted[1], res |-> byName[sorted[1]]]
    IN  first(legacy_candidates(byName))

\* fuse_all: a missing code counts as ExtractorResultDict()
fuse_all(regex_res, nlp_res, table_res, llm_res, kpi_codes) ==
    LET get(res, code) == IF code \in DOMAIN res THEN res[code]
                          ELSE ExtractorResultDict(None, None, 0)
    IN  List([i \in 1..Len(kpi_codes) |->
            _pick_best([n \in Range(LegacySources) |->
                IF n = "regex" THEN get(regex_res, kpi_codes[i])
                ELSE IF n = "nlp" THEN get(nlp_res, kpi_codes[i])
                ELSE IF n = "table" THEN get(table_res, kpi_codes[i])
                ELSE get(llm_res, kpi_codes[i])])])

LEGACY_REGEX_CONFIDENCE == 60
LEGACY_NLP_CONFIDENCE == 65
LEGACY_CAMELOT_CONFIDENCE == 90
LEGACY_FITZ_CONFIDENCE == 88

\* what the legacy extractors can hand to the fusion for one KPI, after
\* normalize_kpis: the text extractors omit a KPI without a hit, the table
\* engine and the backfill extractor have an entry for every code
LegacyRegexResults(codes) ==
    UNION {[cs -> {ExtractorResultDict(Some(DecInt(123400)), Some(Str("tCO2e")),
                                       LEGACY_REGEX_CONFIDENCE)}] : cs \in SUBSET codes}
LegacyNlpResults(codes) ==
    UNION {[cs -> {ExtractorResultDict(Some(DecInt(2024)), None,
                                       LEGACY_NLP_CONFIDENCE)}] : cs \in SUBSET codes}
LegacyTableResults(codes) ==
    [codes -> {ExtractorResultDict(None, None, 0),
               ExtractorResultDict(Some(DecInt(500000)), Some(Str("MWh")),
                                   LEGACY_CAMELOT_CONFIDENCE),
               ExtractorResultDict(Some(DecInt(99)), None, LEGACY_FITZ_CONFIDENCE)}]
LegacyLlmResults(codes) ==
    [codes -> {ExtractorResultDict(None, None, 0),
               ExtractorResultDict(Some(DecInt(5)), Some(Str("tCO2e")),
                                   LLM_USER_VALUE_CONFIDENCE),
               ExtractorResultDict(Some(DecInt(7)), None, 95),
               ExtractorResultDict(Some(DecInt(7)), None, 50)}]

\* extract_all_kpis at the call of fuse_all: regex_norm, nlp_norm,
\* table_grid_norm and llm_norm hold regex_res, nlp_res, table_res, llm_res
InitLegacy ==
    /\ pc = "legacy_fuse"
    /\ doc = Doc("ok", <<>>, <<>>)
    /\ kpi_schema \in {SchemaB, SchemaC}
    /\ text = <<>>
    /\ table_grid_raw = << >> /\ table_plain_raw = << >>
    /\ regex_raw = << >> /\ nlp_raw = << >>
    /\ regex_norm \in LegacyRegexResults(Range(KpiCodes(kpi_schema)))
    /\ nlp_norm \in LegacyNlpResults(Range(KpiCodes(kpi_schema)))
    /\ table_grid_norm \in LegacyTableResults(Range(KpiCodes(kpi_schema)))
    /\ llm_norm \in LegacyLlmResults(Range(KpiCodes(kpi_schema)))
    /\ table_plain_norm = << >>
    /\ fused = <<>>
    /\ missing_codes = <<>>
    /\ oracle = NoOracle
    /\ llm_calls = <<>>
    /\ llm_failed = FALSE
    /\ results = <<>>
    /\ error = "none"
    /\ pattern_cache = NoCache

\* lines 114-125; fused holds the picked name and result of every code
LegacyFuse ==
    /\ pc = "legacy_fuse"
    /\ fused' = fuse_all(regex_norm, nlp_norm, table_grid_norm, llm_norm,
                         KpiCodes(kpi_schema))
    /\ pc' = "done"
    /\ UNCHANGED <<doc, kpi_schema, text, table_grid_raw, table_plain_raw, regex_raw,
                   nlp_raw, table_grid_norm, table_plain_norm, regex_norm, nlp_norm,
                   missing_codes, oracle, llm_calls, llm_failed, llm_norm,
                   results, error, pattern_cache>>

NextLegacy == LegacyFuse

SpecLegacy == InitLegacy /\ [][NextLegacy]_vars

\* ------------------------------------------------------------------------
\* the text extractors and the normalizers on sentences that state a KPI's
\* number away from its unit, in several spellings of the number
\* ------------------------------------------------------------------------
WindowNumbers ==
    {Str("2024"), Str("2,024"), Str("2 024"), Str("2.024"), Str("50"), Str("5 0"),
     Str("3,000"), Str("150"), Str("1 500"), Str("0.05 thousand"), Str("1.2 million"),
     Str("50k"), Str("2k")}

WindowTexts ==
    {Str("Energy consumption fell to ") \o n \o Str(" in total (MWh).") :
        n \in WindowNumbers}
    \cup {Str("Total GHG emissions rose. Roughly ") \o n \o Str(" were emitted, in tCO2e.") :
            n \in WindowNumbers}
    \cup {Str("Energy consumption of ") \o n \o Str(" was reported.") :
            n \in WindowNumbers}

InitWindow ==
    /\ pc = "extract_regex"
    /\ doc \in {[state |-> "ok", page_text |-> t, tables |-> <<>>] : t \in WindowTexts}
    /\ kpi_schema \in Schemas
    /\ text = extract_text(doc)
    /\ table_grid_raw = extract_kpis_tables_grid_doc(doc, kpi_schema)
    /\ table_plain_raw = extract_kpis_tables_plain(doc, kpi_schema)
    /\ regex_raw = << >> /\ nlp_raw = << >>
    /\ table_grid_norm = << >> /\ table_plain_norm = << >>
    /\ regex_norm = << >> /\ nlp_norm = << >>
    /\ fused = <<>>
    /\ missing_codes = <<>>
    /\ oracle = NoOracle
    /\ llm_calls = <<>>
    /\ llm_failed = FALSE
    /\ llm_norm = << >>
    /\ results = <<>>
    /\ error = "none"
    /\ pattern_cache = NoCache

NextWindow == ExtractRegex \/ ExtractNlp \/ Normalize

SpecWindow == InitWindow /\ [][NextWindow]_vars

\* ------------------------------------------------------------------------
\* Properties
\* ------------------------------------------------------------------------

\* C1: the list returned by run_on_pdf holds each code of the schema exactly
\* once and in schema order, also the codes no source produced anything for.
C1_EveryCodeOnceInSchemaOrder ==
    pc = "done" =>
        /\ Len(results) = Len(kpi_schema)
        /\ \A i \in 1..Len(results) : results[i].code = kpi_schema[i].code

\* a returned list that holds a resolved KPI and a KPI nothing was found for
C1_Witness ==
    /\ pc = "done"
    /\ \E i \in 1..Len(results) : results[i].source = <<>>
    /\ \E i \in 1..Len(results) : results[i].value # None

\* C2: in every returned KPIResult the value is non-null exactly when the
\* source list is non-empty.
C2_ValueIffSource ==
    pc = "done" =>
        \A i \in 1..Len(results) :
            (results[i].value # None) <=> (results[i].source # <<>>)

\* C3: every KPI code handed to the backfill oracle is one for which none of
\* the four deterministic extractors produced a candidate.
C3_BackfillOnlyWithoutCandidates ==
    \A n \in 1..Len(llm_calls) :
        \A code \in Range(llm_calls[n]) :
            /\ code \notin DOMAIN table_grid_raw
            /\ code \notin DOMAIN table_plain_raw
            /\ code \notin DOMAIN regex_raw
            /\ code \notin DOMAIN nlp_raw

\* C4: a KPI whose fused value is non-null keeps its fused entry through the
\* merge of the backfill, and the returned KPIResult carries exactly its
\* value, unit, confidence and source, whatever the oracle answered.
C4_ResolvedNeverChanged ==
    [][\A i \in 1..Len(fused) :
          fused[i].value # None =>
            /\ Len(fused') >= i
            /\ fused'[i] = fused[i]
            /\ pc' = "done" =>
                 /\ Len(results') >= i
                 /\ results'[i].code = fused[i].code
                 /\ results'[i].value = fused[i].value
                 /\ results'[i].unit = fused[i].unit
                 /\ results'[i].confidence = fused[i].confidence
                 /\ results'[i].source = fused[i].source]_vars

\* the oracle offered a parsable value for a KPI that fusion had resolved, and
\* filled another one
C4_Witness ==
    /\ pc = "done"
    /\ oracle.kind = "json_object"
    /\ \E i \in 1..Len(results) :
          /\ results[i].value # None
          /\ results[i].source # <<"llm">>
          /\ oracle.data[results[i].code] = JItem(JStr(Str("123,400")), JStr(Str("tCO2e")))
    /\ \E i \in 1..Len(results) : results[i].source = <<"llm">>

\* C5: the fused entry of a KPI comes from the candidate of highest
\* confidence; between candidates of equal confidence, from the source of
\* highest priority.
C5_HighestConfidenceWins ==
    pc = "select_missing" =>
        \A i \in 1..Len(fused) :
            LET norms == [table_grid |-> table_grid_norm, table_plain |-> table_plain_norm,
                          regex |-> regex_norm, nlp |-> nlp_norm]
                code == fused[i].code
            IN  fused[i].source # <<>> =>
                  \A src \in {x \in Range(SourceOrder) : code \in DOMAIN norms[x]} :
                      LET chosen == fused[i].source[1]
                      IN  \/ norms[src][code].confidence < norms[chosen][code].confidence
                          \/ /\ norms[src][code].confidence = norms[chosen][code].confidence
                             /\ PRIORITY_ORDER(src) <= PRIORITY_ORDER(chosen)

\* C6: a table-grid candidate of confidence 0.9 is selected over a pattern
\* candidate of confidence 0.6, and of a pattern and a sentence-window
\* candidate of equal confidence the pattern candidate is selected.
C6_TieBreak ==
    pc = "select_missing" =>
        \A i \in 1..Len(fused) :
            LET code == fused[i].code
                others(srcs) == \A x \in Range(SourceOrder) \ srcs :
                                   code \notin DOMAIN [table_grid |-> table_grid_norm,
                                                       table_plain |-> table_plain_norm,
                                                       regex |-> regex_norm,
                                                       nlp |-> nlp_norm][x]
            IN  /\ ( /\ code \in DOMAIN table_grid_norm
                     /\ code \in DOMAIN regex_norm
                     /\ table_grid_norm[code].confidence = 90
                     /\ regex_norm[code].confidence = 60 )
                   => /\ fused[i].source # <<"regex">>
                      /\ others({"table_grid", "regex"}) => fused[i].source = <<"table_grid">>
                /\ ( /\ code \in DOMAIN regex_norm
                     /\ code \in DOMAIN nlp_norm
                     /\ regex_norm[code].confidence = nlp_norm[code].confidence )
                   => /\ fused[i].source # <<"nlp">>
                      /\ others({"regex", "nlp"}) => fused[i].source = <<"regex">>

\* one KPI with a 0.9 table-grid and a 0.6 pattern candidate, another with a
\* pattern and a sentence-window candidate of equal confidence, both fused
C6_Witness ==
    /\ pc = "select_missing"
    /\ \E i, j \in 1..Len(fused) :
          /\ DOMAIN table_grid_norm = {fused[i].code}
          /\ DOMAIN table_plain_norm = {}
          /\ DOMAIN regex_norm = {fused[i].code, fused[j].code}
          /\ DOMAIN nlp_norm = {fused[j].code}
          /\ i # j
          /\ table_grid_norm[fused[i].code].confidence = 90
          /\ regex_norm[fused[i].code].confidence = 60
          /\ regex_norm[fused[j].code].confidence = nlp_norm[fused[j].code].confidence
          /\ fused[i].source = <<"table_grid">>
          /\ fused[j].source = <<"regex">>

\* C7: every normalized candidate (pattern, sentence-window, table-grid,
\* table-text, backfill) has a unit that is null or one of the units the
\* schema lists for its KPI.
C7_UnitNullOrCanonical ==
    LET canonical(norm) ==
          \A code \in DOMAIN norm :
              \/ norm[code].unit = None
              \/ \E k \in 1..Len(UnitsOf(kpi_schema, code)) :
                    UnitsOf(kpi_schema, code)[k] = norm[code].unit[1]
    IN  /\ canonical(regex_norm)
        /\ canonical(nlp_norm)
        /\ canonical(table_grid_norm)
        /\ canonical(table_plain_norm)
        /\ canonical(llm_norm)

\* a pattern candidate whose unit was read in another spelling than the
\* canonical one, next to a normalized backfill candidate
C7_Witness ==
    /\ \E code \in DOMAIN regex_norm :
          /\ regex_norm[code].unit # None
          /\ regex_norm[code].raw_unit # regex_norm[code].unit
    /\ \E code \in DOMAIN llm_norm : llm_norm[code].unit # None

\* C8 as stated: a KPI for which no deterministic extractor and no backfill
\* produced a candidate is returned as value null, unit null, confidence 0.0,
\* source [], status "not reported".
C8_Original_StatusNotReported ==
    pc = "done" =>
        \A i \in 1..Len(results) :
            ( /\ results[i].code \notin DOMAIN table_grid_raw
              /\ results[i].code \notin DOMAIN table_plain_raw
              /\ results[i].code \notin DOMAIN regex_raw
              /\ results[i].code \notin DOMAIN nlp_raw
              /\ results[i].code \notin DOMAIN llm_norm )
            => results[i] = [code |-> kpi_schema[i].code, value |-> None, unit |-> None,
                             confidence |-> 0, source |-> <<>>,
                             status |-> "not reported"]

\* C8 amended: such a KPI is returned as value null, unit null, confidence
\* 0.0, source [], status "Not Reported".
C8_UnresolvedResult ==
    pc = "done" =>
        \A i \in 1..Len(results) :
            ( /\ results[i].code \notin DOMAIN table_grid_raw
              /\ results[i].code \notin DOMAIN table_plain_raw
              /\ results[i].code \notin DOMAIN regex_raw
              /\ results[i].code \notin DOMAIN nlp_raw
              /\ results[i].code \notin DOMAIN llm_norm )
            => results[i] = [code |-> kpi_schema[i].code, value |-> None, unit |-> None,
                             confidence |-> 0, source |-> <<>>,
                             status |-> "Not Reported"]

\* a returned list with a KPI nothing was found for, after the oracle was
\* asked and answered null for it
C8_Witness ==
    /\ pc = "done"
    /\ oracle.kind = "json_object"
    /\ \E i \in 1..Len(results) :
          /\ results[i].code \notin DOMAIN table_grid_raw
          /\ results[i].code \notin DOMAIN table_plain_raw
          /\ results[i].code \notin DOMAIN regex_raw
          /\ results[i].code \notin DOMAIN nlp_raw
          /\ results[i].code \notin DOMAIN llm_norm
          /\ results[i].status = "Not Reported"

\* C9 as stated: for the text "Total GHG emissions (tCO2e) of 123,400", a KPI
\* with units ["tCO2e"] and no table grids, the result is value 123400.0, unit
\* "tCO2e" and the pattern (regex) extractor as only source.
C9_Original_PatternAlone ==
    (pc = "done" /\ doc = Doc("ok", <<1>>, <<>>)) =>
        \A i \in 1..Len(results) :
            kpi_schema[i].units = <<Str("tCO2e")>> =>
                /\ results[i].value = Some(DecInt(123400))
                /\ results[i].unit = Some(Str("tCO2e"))
                /\ results[i].source = <<"regex">>

\* C9 amended: for that text the result is value 123400.0 and unit "tCO2e";
\* the only source is the table-text extractor when the line contains a
\* synonym of the KPI, and the pattern extractor otherwise.
C9_EndToEnd ==
    (pc = "done" /\ doc = Doc("ok", <<1>>, <<>>)) =>
        \A i \in 1..Len(results) :
            kpi_schema[i].units = <<Str("tCO2e")>> =>
                /\ results[i].value = Some(DecInt(123400))
                /\ results[i].unit = Some(Str("tCO2e"))
                /\ results[i].source =
                     IF AnyContained(Lower(LinePool[1]), SynonymsLower(kpi_schema[i]))
                     THEN <<"table_plain">> ELSE <<"regex">>

\* the run on that text has returned, the table-text extractor and the
\* pattern extractor both having produced the candidate
C9_Witness ==
    /\ pc = "done"
    /\ doc = Doc("ok", <<1>>, <<>>)
    /\ \E i \in 1..Len(results) :
          /\ kpi_schema[i].units = <<Str("tCO2e")>>
          /\ results[i].code \in DOMAIN table_plain_norm
          /\ results[i].code \in DOMAIN regex_norm
          /\ results[i].source = <<"table_plain">>

\* C10: when the backfill fails (the oracle call or the normalization of its
\* answer raises, or the oracle is unavailable) no exception leaves
\* run_on_pdf, and the returned list is the complete list of the
\* deterministic fusion: resolved KPIs unchanged, missing KPIs unresolved.
C10_BackfillFailureDegrades ==
    (llm_calls # <<>> /\ (llm_failed \/ oracle.kind \in OracleFailures)) =>
        /\ error = "none"
        /\ pc # "failed"
        /\ pc = "done" =>
             /\ Len(results) = Len(kpi_schema)
             /\ results =
                  LET f == fuse_all_sources(regex_norm, table_grid_norm, table_plain_norm,
                                            nlp_norm, KpiCodes(kpi_schema))
                  IN  List([i \in 1..Len(f) |-> KPIResult(f[i])])

\* the oracle's answer made the backfill raise, and the run returned a list
\* with a resolved and a missing KPI
C10_Witness ==
    /\ pc = "done"
    /\ llm_failed
    /\ \E i \in 1..Len(results) : results[i].value # None
    /\ \E i \in 1..Len(results) : results[i].value = None

C12_UnreadableFailsBeforeExtractors ==
    doc.state \in {"missing", "unreadable"} =>
        /\ pc \in {"start", "failed"}
        /\ pc = "failed" => error # "none"
        /\ llm_calls = <<>>

\* C13: parse_scaled_number maps "123,400" and "123.400" to 123400.0,
\* "1 200 000" and "1.2 million" to 1200000.0, "120k" to 120000.0 and "abc"
\* to null (read off the sentence-window normalizer, which stores the parsed
\* value as it is).
C13_ParserExamples ==
    \A code \in DOMAIN nlp_norm :
        LET parsed(raw_value, value) ==
              /\ raw_value \in {Some(Str("123,400")), Some(Str("123.400"))}
                    => value = Some(DecInt(123400))
              /\ raw_value \in {Some(Str("1 200 000")), Some(Str("1.2 million"))}
                    => value = Some(DecInt(1200000))
              /\ raw_value = Some(Str("120k")) => value = Some(DecInt(120000))
              /\ raw_value = Some(Str("abc")) => value = None
        IN  parsed(nlp_norm[code].raw_value, nlp_norm[code].value)

\* the token "123.400" has been parsed
C13_Witness ==
    \E code \in DOMAIN nlp_norm :
        /\ nlp_norm[code].raw_value = Some(Str("123.400"))
        /\ nlp_norm[code].value = Some(DecInt(123400))

\* C14: the numeric parser returns a float or null and returns null whenever
\* the token is not interpretable as a number: a raw value that is null,
\* empty or holds no digit gives a candidate whose value is null, for
\* parse_scaled_number (pattern, sentence-window and table-text normalizers)
\* and for parse_locale_number (table-grid normalizer).
C14_ParserNullOnNonNumbers ==
    LET no_number(raw_value) ==
          raw_value = None \/ \A i \in 1..Len(raw_value[1]) : ~IsDigit(raw_value[1][i])
        total(norm) ==
          \A code \in DOMAIN norm :
              no_number(norm[code].raw_value) => norm[code].value = None
    IN  /\ total(regex_norm)
        /\ total(nlp_norm)
        /\ total(table_plain_norm)
        /\ total(table_grid_norm)

\* C15: _normalize_unit returns ("MWh", 0.001) for the raw unit "kWh" of a
\* KPI with the canonical units ["MWh"], ("tCO2e", 1.0) for the raw unit
\* "tCO2e" with ["tCO2e"] and ("m3", 1.0) for a null raw unit with ["m3"]:
\* the pattern normalizer stores that unit and the parsed value times that
\* multiplier.
C15_UnitResolverExamples ==
    \A code \in DOMAIN regex_norm :
        LET resolved(e, units, parsed) ==
              /\ (e.raw_unit = Some(Str("kWh")) /\ units = <<Str("MWh")>>) =>
                    /\ _normalize_unit(e.raw_unit, Some(units[1])) =
                          [unit |-> Some(Str("MWh")), mult |-> DecNorm(1, -3)]
                    /\ e.unit = Some(Str("MWh"))
                    /\ parsed # None => e.value = Some(DecMul(parsed[1], DecNorm(1, -3)))
              /\ (e.raw_unit = Some(Str("tCO2e")) /\ units = <<Str("tCO2e")>>) =>
                    /\ _normalize_unit(e.raw_unit, Some(units[1])) =
                          [unit |-> Some(Str("tCO2e")), mult |-> DecInt(1)]
                    /\ e.unit = Some(Str("tCO2e"))
                    /\ e.value = parsed
              /\ (e.raw_unit = None /\ units = <<Str("m3")>>) =>
                    /\ _normalize_unit(e.raw_unit, Some(units[1])) =
                          [unit |-> Some(Str("m3")), mult |-> DecInt(1)]
                    /\ e.unit = Some(Str("m3"))
                    /\ e.value = parsed
        IN  resolved(regex_norm[code], UnitsOf(kpi_schema, code),
                     parse_scaled_number(regex_norm[code].raw_value))

\* 123,400 kWh of a KPI whose only unit is MWh became 123.4 MWh
C15_Witness ==
    \E code \in DOMAIN regex_norm :
        /\ UnitsOf(kpi_schema, code) = <<Str("MWh")>>
        /\ regex_norm[code].raw_unit = Some(Str("kWh"))
        /\ regex_norm[code].raw_value = Some(Str("123,400"))
        /\ regex_norm[code].unit = Some(Str("MWh"))
        /\ regex_norm[code].value = Some(DecNorm(1234, -1))

\* C20: when the raw unit of a candidate matches none of the KPI's canonical
\* units exactly (both sides normalized) nor through the alias table, and the
\* KPI has more than one canonical unit, the normalized candidate has a null
\* unit and its value is the parsed value (multiplier 1.0): no normalizer
\* picks one of the canonical units.
C20_NoGuessAmongUnits ==
    LET matches(u_norm, units) ==
          \/ \E k \in 1..Len(units) : _norm_unit_token(units[k]) = u_norm
          \/ \E i \in 1..Len(UNIT_CONVERSIONS), k \in 1..Len(units) :
                /\ UNIT_CONVERSIONS[i].key = u_norm
                /\ _norm_unit_token(UNIT_CONVERSIONS[i].target) = _norm_unit_token(units[k])
        unmatched(raw_unit, units) ==
          /\ raw_unit # None
          /\ raw_unit # Some(<<>>)
          /\ Len(units) > 1
          /\ ~matches(_norm_unit_token(raw_unit[1]), units)
        no_guess(norm, parsed) ==
          \A code \in DOMAIN norm :
              unmatched(norm[code].raw_unit, UnitsOf(kpi_schema, code)) =>
                  /\ norm[code].unit = None
                  /\ norm[code].value = parsed[norm[code].raw_value]
    IN  /\ no_guess(regex_norm, [t \in NumberTokens |-> parse_scaled_number(t)])
        /\ no_guess(nlp_norm, [t \in NumberTokens |-> parse_scaled_number(t)])
        /\ no_guess(table_plain_norm, [t \in NumberTokens |-> parse_scaled_number(t)])
        /\ no_guess(table_grid_norm, [t \in NumberTokens |-> parse_locale_number(t)])

C17_FailedOracleGivesNothing ==
    (llm_calls # <<>> /\ oracle.kind \in OracleFailures) =>
        /\ ~llm_failed
        /\ llm_norm = << >>
        /\ pc = "done" => \A i \in 1..Len(results) : results[i].source # <<"llm">>

\* C18: for an existing readable PDF, run_pipeline_v2 does not fail in any
\* pipeline step, and the list it returns is non-empty and has an entry for
\* every KPI code of the schema.
C18_V2RunsToTheEnd ==
    doc.state = "ok" =>
        /\ pc # "failed"
        /\ error = "none"
        /\ pc = "done" =>
              /\ results # <<>>
              /\ \A k \in 1..Len(kpi_schema) :
                    \E i \in 1..Len(results) : results[i].code = kpi_schema[k].code

\* C19: in run_on_pdf the backfill oracle is invoked at most once per run,
\* only after the four deterministic extractors, their normalizers and the
\* fusion have completed (the run reaches the call with their outputs for
\* this document in place), and not at all when every KPI has a non-null
\* fused value (every code asked for has a null fused value).
C19_BackfillOnceAfterFusion ==
    /\ [](pc = "backfill" =>
            /\ llm_calls = <<>>
            /\ table_grid_raw = extract_kpis_tables_grid_doc(doc, kpi_schema)
            /\ table_plain_raw = extract_kpis_tables_plain(doc, kpi_schema)
            /\ regex_raw = extract_kpis_regex(text, kpi_schema, NoCache.regex)
            /\ nlp_raw = extract_kpis_nlp(text, kpi_schema, NoCache.nlp)
            /\ table_grid_norm = normalize_table_grid_result(table_grid_raw, kpi_schema)
            /\ table_plain_norm = normalize_table_plain_result(table_plain_raw, kpi_schema)
            /\ regex_norm = normalize_regex_result(regex_raw, kpi_schema)
            /\ nlp_norm = normalize_nlp_result(nlp_raw, kpi_schema)
            /\ fused = fuse_all_sources(regex_norm, table_grid_norm, table_plain_norm,
                                        nlp_norm, KpiCodes(kpi_schema))
            /\ \E i \in 1..Len(fused) : fused[i].value = None)
    /\ [][llm_calls' # llm_calls =>
            /\ pc = "backfill"
            /\ Len(llm_calls') = 1
            /\ \A n \in 1..Len(llm_calls'[1]) :
                  \E i \in 1..Len(fused) :
                      fused[i].code = llm_calls'[1][n] /\ fused[i].value = None]_vars

\* a finished run that asked the oracle once, for one of two KPIs, after a
\* deterministic extractor had resolved the other
C19_Witness ==
    /\ pc = "done"
    /\ Len(llm_calls) = 1
    /\ Len(llm_calls[1]) = 1
    /\ Len(results) = 2
    /\ \E i \in 1..Len(results) :
          results[i].value # None /\ results[i].source # <<"llm">>

\* C21: within one table grid the table-grid extractor keeps the first
\* matching data row of each KPI: the candidate's raw value and raw unit are
\* those of the earliest row matched to the KPI in the first table that has
\* one, and later rows of that table never replace it.
C21_FirstRowPerTable ==
    (pc = "extract_table_plain" /\ doc.state = "ok") =>
        \A k \in 1..Len(kpi_schema), t \in 1..Len(doc.tables) :
            LET rows == doc.tables[t]
                col == _detect_cols(rows[1])
                synonyms == _build_synonyms(kpi_schema)
                matching(g) ==
                    {r \in 2..Len(doc.tables[g]) :
                        RowMatch(doc.tables[g][r], _detect_cols(doc.tables[g][1]),
                                 synonyms) = Some(k)}
                first == FirstOf(matching(t))
            IN  (first # None /\ \A g \in 1..(t - 1) : matching(g) = {}) =>
                    /\ kpi_schema[k].code \in DOMAIN table_grid_raw
                    /\ table_grid_raw[kpi_schema[k].code].raw_value =
                         GridRowEntry(rows[first[1]], col, kpi_schema[k].units).raw_value
                    /\ table_grid_raw[kpi_schema[k].code].raw_unit =
                         GridRowEntry(rows[first[1]], col, kpi_schema[k].units).raw_unit

\* C22: the backfill extractor with retries calls the oracle at most
\* MAX_LLM_RETRIES + 1 = 3 times per invocation and always terminates; every
\* call but the last one returned (did not raise) a content that does not
\* parse as a JSON object, so no call follows a parsed object or a raise.
C22_BoundedRetries ==
    /\ [](/\ MAX_LLM_RETRIES + 1 = 3
          /\ Len(llm_calls) <= MAX_LLM_RETRIES + 1
          /\ \A i \in 1..(Len(llm_calls) - 1) :
                /\ ~llm_calls[i].raised
                /\ json_loads(_strip_markdown_fences(
                       call_llm(llm_calls[i].answer))).kind # "object")
    /\ <>(pc \in {"done", "failed"})

\* two malformed answers, then an object on the last attempt allowed
C22_Witness ==
    /\ pc = "done"
    /\ Len(llm_calls) = 3
    /\ oracle # None
    /\ \E code \in DOMAIN llm_norm : llm_norm[code].value # None

\* C23: a candidate whose raw value does not parse to a number is discarded
\* by its normalizer: it is not among the normalized candidates handed to the
\* fusion, and no returned KPIResult names its extractor as the source.
C23_UnparsedDiscarded ==
    pc \in {"fuse", "select_missing", "backfill", "merge", "assemble", "done"} =>
        /\ \A code \in DOMAIN table_grid_raw :
              parse_locale_number(table_grid_raw[code].raw_value) = None
                  => code \notin DOMAIN table_grid_norm
        /\ \A code \in DOMAIN table_plain_raw :
              parse_locale_number(table_plain_raw[code].raw_value) = None
                  => code \notin DOMAIN table_plain_norm
        /\ \A code \in DOMAIN regex_raw :
              parse_scaled_number(regex_raw[code].raw_value) = None
                  => code \notin DOMAIN regex_norm
        /\ \A code \in DOMAIN nlp_raw :
              parse_scaled_number(nlp_raw[code].raw_value) = None
                  => code \notin DOMAIN nlp_norm
        /\ pc = "done" =>
              \A i \in 1..Len(results) :
                  /\ results[i].source = <<"table_grid">> =>
                        parse_locale_number(
                            table_grid_raw[results[i].code].raw_value) # None
                  /\ results[i].source = <<"regex">> =>
                        parse_scaled_number(regex_raw[results[i].code].raw_value) # None

\* C24: in the legacy fusion behind run_pipeline_v2 the backfill candidate is
\* picked for a KPI only when the KPI has no deterministic candidate (regex,
\* nlp or table with a confidence above 0): a backfill candidate never
\* outranks a deterministic one by its confidence.
C24_LegacyLlmOnlyFillsGaps ==
    pc = "done" =>
        \A i \in 1..Len(fused) :
            fused[i].name = "llm" =>
                LET code == KpiCodes(kpi_schema)[i]
                IN  /\ code \notin DOMAIN regex_norm
                    /\ code \notin DOMAIN nlp_norm
                    /\ table_grid_norm[code].confidence = 0

\* C25: the fused result does not depend on the order in which the
\* candidates of the four deterministic extractors are collected: for every
\* KPI, collecting the same normalized candidates in any permutation of the
\* sources selects the candidate that run_on_pdf fused.
C25_CollectionOrderIrrelevant ==
    pc = "select_missing" =>
        \A order \in {o \in [1..Len(SourceOrder) -> Range(SourceOrder)] :
                        \A a, b \in DOMAIN o : o[a] = o[b] => a = b} :
            \A i \in 1..Len(fused) :
                fused[i] = FuseOneCollected(fused[i].code,
                               [table_grid |-> table_grid_norm,
                                table_plain |-> table_plain_norm,
                                regex |-> regex_norm, nlp |-> nlp_norm], order)

\* a KPI with candidates from three extractors, fused to the table-text one
C25_Witness ==
    /\ pc = "select_missing"
    /\ \E i \in 1..Len(fused) :
          /\ fused[i].code \in DOMAIN table_plain_norm
          /\ fused[i].code \in DOMAIN regex_norm
          /\ fused[i].code \in DOMAIN nlp_norm
          /\ fused[i].source = <<"table_plain">>

\* C26: the sentence-window extractor's bare-number fallback (a candidate
\* without a unit) is emitted only if one of the KPI's units occurs in the
\* text around it, and its number, as the normalizer reads it, is never
\* calendar-year-like (1000 to 2100) nor smaller than 100, however the
\* number is grouped or separated.
C26_FallbackFilters ==
    pc = "fuse" =>
        \A code \in DOMAIN nlp_raw :
            nlp_raw[code].raw_unit = None =>
                /\ \E k \in 1..Len(UnitsOf(kpi_schema, code)) :
                      Contains(Lower(text), Lower(UnitsOf(kpi_schema, code)[k]))
                /\ nlp_norm[code].value # None =>
                      /\ ~(DecGeInt(nlp_norm[code].value[1], 1000)
                           /\ DecLeInt(nlp_norm[code].value[1], 2100))
                      /\ ~DecLtInt(nlp_norm[code].value[1], 100)

\* C27: in run_on_pdf, where every extractor runs with its default
\* confidence, the candidate fuse_all_sources chooses by (_score, priority)
\* is the one a ranking by confidence first and priority second chooses.
C27_ScoreRankingIsConfidenceRanking ==
    pc = "select_missing" =>
        LET norms == [table_grid |-> table_grid_norm, table_plain |-> table_plain_norm,
                      regex |-> regex_norm, nlp |-> nlp_norm]
            by_confidence(code) ==
                CHOOSE src \in {x \in Range(SourceOrder) : code \in DOMAIN norms[x]} :
                    \A other \in {x \in Range(SourceOrder) : code \in DOMAIN norms[x]} :
                        \/ norms[src][code].confidence > norms[other][code].confidence
                        \/ /\ norms[src][code].confidence = norms[other][code].confidence
                           /\ PRIORITY_ORDER(src) >= PRIORITY_ORDER(other)
        IN  \A i \in 1..Len(fused) :
                fused[i].source # <<>> =>
                    /\ fused[i].source = <<by_confidence(fused[i].code)>>
                    /\ fused[i].confidence =
                         norms[by_confidence(fused[i].code)][fused[i].code].confidence
                    /\ fused[i].value =
                         norms[by_confidence(fused[i].code)][fused[i].code].value

\* the pattern and the sentence-window extractors both have a candidate, of
\* different confidence, and the pattern one is fused
C27_Witness ==
    /\ pc = "select_missing"
    /\ \E i \in 1..Len(fused) :
          /\ fused[i].code \in DOMAIN regex_norm
          /\ fused[i].code \in DOMAIN nlp_norm
          /\ fused[i].code \notin DOMAIN table_plain_norm
          /\ fused[i].code \notin DOMAIN table_grid_norm
          /\ regex_norm[fused[i].code].confidence > nlp_norm[fused[i].code].confidence
          /\ fused[i].source = <<"regex">>

\* C28: when at least one deterministic candidate of a KPI carries a parsed
\* (non-null) value, the fused entry of that KPI has a non-null value: a
\* candidate of higher priority whose value did not parse never shadows one
\* of lower priority that has a value.
C28_ValueNeverShadowed ==
    pc = "select_missing" =>
        \A i \in 1..Len(fused) :
            (\/ /\ fused[i].code \in DOMAIN table_grid_norm
                /\ table_grid_norm[fused[i].code].value # None
             \/ /\ fused[i].code \in DOMAIN table_plain_norm
                /\ table_plain_norm[fused[i].code].value # None
             \/ /\ fused[i].code \in DOMAIN regex_norm
                /\ regex_norm[fused[i].code].value # None
             \/ /\ fused[i].code \in DOMAIN nlp_norm
                /\ nlp_norm[fused[i].code].value # None)
            => fused[i].value # None

\* C29: every normalizer converts into the canonical unit. When the raw unit
\* of a candidate is a recognised alias of the KPI's canonical unit (the
\* first schema unit) with multiplier m in the conversion table and the raw
\* value parses, the normalized value is the parsed number times m, for the
\* table, sentence-window and backfill candidates as for the pattern
\* candidates; the value is never left unscaled under another unit label.
AliasMultiplier(raw_unit, units) ==
    IF units = <<>> \/ Falsy(raw_unit) THEN None
    ELSE LET u_norm == _norm_unit_token(raw_unit[1])
             can_norm == _norm_unit_token(units[1])
             hit == FirstOf({i \in 1..Len(UNIT_CONVERSIONS) :
                                 UNIT_CONVERSIONS[i].key = u_norm})
         IN  IF u_norm = can_norm THEN Some(DecInt(1))
             ELSE IF /\ hit # None
                     /\ _norm_unit_token(UNIT_CONVERSIONS[hit[1]].target) = can_norm
                  THEN Some(UNIT_CONVERSIONS[hit[1]].mult)
                  ELSE None

ConvertedBy(m, parsed, entry) ==
    (m # None /\ parsed # None) => entry.value = Some(DecMul(parsed[1], m[1]))

C29_EveryNormalizerConverts ==
    /\ \A code \in DOMAIN regex_norm :
          ConvertedBy(AliasMultiplier(regex_norm[code].raw_unit, UnitsOf(kpi_schema, code)),
                      parse_scaled_number(regex_norm[code].raw_value),
                      regex_norm[code])
    /\ \A code \in DOMAIN nlp_norm :
          ConvertedBy(AliasMultiplier(nlp_norm[code].raw_unit, UnitsOf(kpi_schema, code)),
                      parse_scaled_number(nlp_norm[code].raw_value),
                      nlp_norm[code])
    /\ \A code \in DOMAIN table_plain_norm :
          ConvertedBy(AliasMultiplier(table_plain_norm[code].raw_unit, UnitsOf(kpi_schema, code)),
                      parse_locale_number(table_plain_norm[code].raw_value),
                      table_plain_norm[code])
    /\ \A code \in DOMAIN table_grid_norm :
          ConvertedBy(AliasMultiplier(table_grid_norm[code].raw_unit, UnitsOf(kpi_schema, code)),
                      parse_locale_number(table_grid_norm[code].raw_value),
                      table_grid_norm[code])
    /\ \A code \in DOMAIN llm_norm :
          ConvertedBy(AliasMultiplier(JOpt(llm_norm[code].raw_unit), UnitsOf(kpi_schema, code)),
                      parse_scaled_number(JOpt(llm_norm[code].raw_value)),
                      llm_norm[code])

\* C30: the status of a returned KPIResult tells resolved from unresolved:
\* every result with a non-null value, whether it comes from a deterministic
\* source or from backfill, has a status other than "Not Reported", and only
\* results with a null value carry "Not Reported".
C30_StatusTellsResolved ==
    pc = "done" =>
        \A i \in 1..Len(results) :
            (results[i].status = NOT_REPORTED) <=> (results[i].value = None)

====
